---------------------------- MODULE Spec2Model ----------------------------
(***************************************************************************)
(* Wolf Tracker: the SQLite-backed record repository (app/database.py),    *)
(* and the routines of main.py that drive it.                              *)
(*                                                                         *)
(* A table is the set of its rows, a row is a record of its columns.  A    *)
(* nullable column holds <<>> for SQL NULL and <<v>> for the value v, and  *)
(* a Python "X | None" result is <<>> for None and <<x>> for x.  Text      *)
(* columns that hold dates hold the ISO-8601 string as the sequence of its *)
(* character codes, so that SQLite's byte-wise text comparison is modelled *)
(* on the characters and not on the calendar.                              *)
(***************************************************************************)
EXTENDS Integers, Sequences, FiniteSets, TLC

\* db is the database file (what is committed), conn the state of the
\* manager's connection, txn the connection's open transaction (its view of
\* the tables, None outside a transaction), pc the position of a method or
\* of main that is under way, hist the calls made and ret the last result
VARIABLES db, hist, ret, conn, txn, pc

vars == <<db, hist, ret, conn, txn, pc>>

-----------------------------------------------------------------------------
(* Bounds of the exploration *)

\* number of repository calls and runs of main in one behaviour
MaxOps == 2
\* longest nutrition list of one evening payload
MaxFoods == 2
\* number of calls on one manager, from its construction on
MaxCalls == 3

-----------------------------------------------------------------------------
(* Values *)

NULL == <<>>
None == <<>>
Some(v) == <<v>>
\* no method and no run of main is under way
Idle == <<>>

\* Python truthiness of a value fetched from a TEXT column: None and ''
\* are falsy
Truthy(col) == col # NULL /\ col[1] # ""

\* the calendar dates of the exploration, <<year, month, day>>: a leap day
\* and the day after it
CalDates == { <<2024, 2, 29>>, <<2024, 3, 1>> }

IsLeap(y) == (y % 4 = 0 /\ y % 100 # 0) \/ y % 400 = 0

DaysInMonth(y, m) ==
    IF m = 2 THEN (IF IsLeap(y) THEN 29 ELSE 28)
    ELSE IF m \in {4, 6, 9, 11} THEN 30 ELSE 31

\* date - timedelta(days=1)
MinusOneDay(dt) ==
    LET y == dt[1]  m == dt[2]  d == dt[3] IN
    IF d > 1 THEN <<y, m, d - 1>>
    ELSE IF m > 1 THEN <<y, m - 1, DaysInMonth(y, m - 1)>>
    ELSE <<y - 1, 12, 31>>

\* character codes: '0'..'9' are 48..57, '-' is 45
Chr(n) == 48 + n

\* date.isoformat(): YYYY-MM-DD, zero padded
isoformat(dt) ==
    LET y == dt[1]  m == dt[2]  d == dt[3] IN
    << Chr(y \div 1000), Chr((y \div 100) % 10), Chr((y \div 10) % 10),
       Chr(y % 10), 45, Chr(m \div 10), Chr(m % 10), 45,
       Chr(d \div 10), Chr(d % 10) >>

\* date.fromisoformat() of a well-formed YYYY-MM-DD string
fromisoformat(s) ==
    << (s[1] - 48) * 1000 + (s[2] - 48) * 100 + (s[3] - 48) * 10 + (s[4] - 48),
       (s[6] - 48) * 10 + (s[7] - 48),
       (s[9] - 48) * 10 + (s[10] - 48) >>

\* the date strings the operations are called with
Dates == { isoformat(dt) : dt \in CalDates }

\* SQLite's BINARY collation on TEXT: memcmp, then the shorter first
RECURSIVE TextLess(_, _)
TextLess(s, t) ==
    IF t = <<>> THEN FALSE
    ELSE IF s = <<>> THEN TRUE
    ELSE IF Head(s) # Head(t) THEN Head(s) < Head(t)
    ELSE TextLess(Tail(s), Tail(t))


-----------------------------------------------------------------------------
(* Input values of the exploration *)

\* free text typed at a prompt or passed to a save call
Texts == {"", "t"}
\* review, accomplishment and mood of an evening
EveningTexts == { <<"t", "", "t">>, <<"", "t", "">> }
FoodNames == {"Pizza", "Salad"}
WorkoutNames == {"Run", "Lift"}
FoodCalories == {95, 350}
ExerciseCalories == {300}
\* weights in pounds
Weights == {180, 182}
\* REAL quantities are kept in halves: the stored number is 2 * quantity
Halves == {3}
\* identifiers a caller may pass, existing or not
Ids == 1..2

-----------------------------------------------------------------------------
(* The schema: create_tables, database.py 27-240 *)

EmptyDb ==
    [ user_profile |-> {}, daily_log |-> {}, weight_log |-> {},
      food_items |-> {}, nutrition_log |-> {}, exercises |-> {},
      workouts |-> {}, workout_components |-> {}, workout_log |-> {} ]

\* a database file in which no table has been created
NoTables == [t \in {} |-> {}]

\* what a call raises
Raised(e) == [raised |-> e]
NotConnected ==
    Raised("Exception: Database not connected. Call connect() before creating tables.")
ClosedDatabase == Raised("sqlite3.ProgrammingError: Cannot operate on a closed database.")
NoConnection == Raised("AttributeError: 'NoneType' object has no attribute 'cursor'")
NoSuchTable == Raised("sqlite3.OperationalError: no such table")

\* DROP TABLE and CREATE TABLE in place of CREATE TABLE IF NOT EXISTS
executescript_schema_recreate(d) == EmptyDb

\* conn.executescript(schema): CREATE TABLE IF NOT EXISTS for every table;
\* a table that exists is left as it is
executescript_schema(d) ==
    [t \in DOMAIN EmptyDb |-> IF t \in DOMAIN d THEN d[t] ELSE {}]

\* the guard left out: the script is run on a connection opened on the spot
create_tables_self_connect(c, d) ==
    [db |-> executescript_schema(d), ret |-> None]

\* create_tables on a manager whose self.conn is c ("none" after __init__,
\* "open" after connect(), "closed" after close()): what the database
\* becomes and what the call returns or raises
create_tables(c, d) ==
    IF c = "none" THEN [db |-> d, ret |-> NotConnected]
    ELSE IF c = "closed" THEN [db |-> d, ret |-> ClosedDatabase]
    ELSE [db |-> executescript_schema(d), ret |-> None]

\* setup(): connect(), then create_tables() on the open connection
setup(d) == create_tables("open", d)

SetMax(S) == CHOOSE x \in S : \A y \in S : y <= x

\* the rowid SQLite gives a row inserted without a value for its
\* INTEGER PRIMARY KEY: one more than the largest in the table
NextRowId(ids) == IF ids = {} THEN 1 ELSE SetMax(ids) + 1

-----------------------------------------------------------------------------
(* Daily log methods *)

\* INSERT OR REPLACE in place of INSERT OR IGNORE
ensure_daily_log_exists_replace(d, log_date) ==
    [d EXCEPT !.daily_log = { r \in @ : r.log_date # log_date } \cup
        {[log_date |-> log_date, dreams |-> NULL, intentions |-> NULL,
          review_of_intentions |-> NULL, accomplishment |-> NULL,
          mood |-> NULL]}]

\* INSERT OR IGNORE INTO daily_log (log_date) VALUES (?)
\* log_date is the PRIMARY KEY: a conflicting insert is skipped
ensure_daily_log_exists(d, log_date) ==
    IF \E r \in d.daily_log : r.log_date = log_date
    THEN d
    ELSE [d EXCEPT !.daily_log = @ \cup
            {[log_date |-> log_date, dreams |-> NULL, intentions |-> NULL,
              review_of_intentions |-> NULL, accomplishment |-> NULL,
              mood |-> NULL]}]

\* an UPDATE that also resets the mood
save_morning_log_all(d, log_date, dreams, intentions) ==
    LET d1 == ensure_daily_log_exists(d, log_date) IN
    [d1 EXCEPT !.daily_log =
        { IF r.log_date = log_date
          THEN [r EXCEPT !.dreams = Some(dreams),
                         !.intentions = Some(intentions),
                         !.mood = NULL]
          ELSE r : r \in @ }]

\* ensure, then UPDATE daily_log SET dreams = ?, intentions = ?
\* WHERE log_date = ?
save_morning_log(d, log_date, dreams, intentions) ==
    LET d1 == ensure_daily_log_exists(d, log_date) IN
    [d1 EXCEPT !.daily_log =
        { IF r.log_date = log_date
          THEN [r EXCEPT !.dreams = Some(dreams),
                         !.intentions = Some(intentions)]
          ELSE r : r \in @ }]

\* ensure, then UPDATE daily_log SET review_of_intentions = ?,
\* accomplishment = ?, mood = ? WHERE log_date = ?
save_evening_log(d, log_date, review, accomplishment, mood) ==
    LET d1 == ensure_daily_log_exists(d, log_date) IN
    [d1 EXCEPT !.daily_log =
        { IF r.log_date = log_date
          THEN [r EXCEPT !.review_of_intentions = Some(review),
                         !.accomplishment = Some(accomplishment),
                         !.mood = Some(mood)]
          ELSE r : r \in @ }]

\* SELECT intentions FROM daily_log WHERE log_date = ?; fetchone()
\* the result set is the matching rows; None when there is none
SelectIntentions(d, log_date) ==
    LET rows == { r \in d.daily_log : r.log_date = log_date } IN
    IF rows = {} THEN None
    ELSE LET row == CHOOSE r \in rows : TRUE IN
         IF Truthy(row.intentions) THEN Some(row.intentions[1]) ELSE None

\* the day is not moved back
get_yesterdays_intentions_same_day(d, today_date) ==
    SelectIntentions(d, today_date)

get_yesterdays_intentions(d, today_date) ==
    LET yesterday == MinusOneDay(fromisoformat(today_date))
        yesterday_str == isoformat(yesterday)
    IN  SelectIntentions(d, yesterday_str)

get_todays_intentions(d, today_date) == SelectIntentions(d, today_date)

\* UPDATE daily_log SET dreams = NULL, intentions = NULL WHERE log_date = ?
clear_morning_data_for_date(d, log_date) ==
    [d EXCEPT !.daily_log =
        { IF r.log_date = log_date
          THEN [r EXCEPT !.dreams = NULL, !.intentions = NULL]
          ELSE r : r \in @ }]

\* an UPDATE that resets the morning fields as well
clear_evening_data_whole_row(d, log_date) ==
    [d EXCEPT
        !.nutrition_log = { r \in @ : r.log_date # log_date },
        !.workout_log = { r \in @ : r.log_date # log_date },
        !.daily_log =
            { IF r.log_date = log_date
              THEN [r EXCEPT !.dreams = NULL, !.intentions = NULL,
                             !.review_of_intentions = NULL,
                             !.accomplishment = NULL, !.mood = NULL]
              ELSE r : r \in @ }]

\* a clear that also drops the food items no nutrition row names any more
clear_evening_data_purge_foods(d, log_date) ==
    LET kept == { r \in d.nutrition_log : r.log_date # log_date } IN
    [d EXCEPT
        !.nutrition_log = kept,
        !.workout_log = { r \in @ : r.log_date # log_date },
        !.food_items = { f \in @ : \E r \in kept : r.food_id = f.food_id },
        !.daily_log =
            { IF r.log_date = log_date
              THEN [r EXCEPT !.review_of_intentions = NULL,
                             !.accomplishment = NULL, !.mood = NULL]
              ELSE r : r \in @ }]

\* the DELETE FROM workout_log left out
clear_evening_data_keep_workouts(d, log_date) ==
    [d EXCEPT
        !.nutrition_log = { r \in @ : r.log_date # log_date },
        !.daily_log =
            { IF r.log_date = log_date
              THEN [r EXCEPT !.review_of_intentions = NULL,
                             !.accomplishment = NULL, !.mood = NULL]
              ELSE r : r \in @ }]

\* DELETE FROM nutrition_log WHERE log_date = ?
\* DELETE FROM workout_log WHERE log_date = ?
\* UPDATE daily_log SET review_of_intentions = NULL, accomplishment = NULL,
\*   mood = NULL WHERE log_date = ?
clear_evening_data_for_date(d, log_date) ==
    [d EXCEPT
        !.nutrition_log = { r \in @ : r.log_date # log_date },
        !.workout_log = { r \in @ : r.log_date # log_date },
        !.daily_log =
            { IF r.log_date = log_date
              THEN [r EXCEPT !.review_of_intentions = NULL,
                             !.accomplishment = NULL, !.mood = NULL]
              ELSE r : r \in @ }]

-----------------------------------------------------------------------------
(* Nutrition methods *)

\* SUM(): the values f[x] of the rows x of S added up
RECURSIVE SumOver(_, _)
SumOver(S, f) ==
    IF S = {} THEN 0
    ELSE LET x == CHOOSE y \in S : TRUE IN f[x] + SumOver(S \ {x}, f)

\* INSERT OR IGNORE INTO food_items (name, calories) VALUES (?, ?)
\* name is UNIQUE: a conflicting insert is skipped
InsertOrIgnoreFood(d, name, calories) ==
    IF \E r \in d.food_items : r.name = name
    THEN d
    ELSE [d EXCEPT !.food_items = @ \cup
            {[food_id |-> NextRowId({ r.food_id : r \in d.food_items }),
              name |-> name, calories |-> calories]}]

\* INSERT OR REPLACE semantics: the calories of an existing item follow
\* the call
add_food_item_update(d, name, calories) ==
    LET d1 == [InsertOrIgnoreFood(d, name, calories) EXCEPT !.food_items =
                 { IF r.name = name THEN [r EXCEPT !.calories = calories]
                   ELSE r : r \in @ }]
        row == CHOOSE r \in d1.food_items : r.name = name
    IN  [db |-> d1, ret |-> row.food_id]

\* the insert, then SELECT food_id FROM food_items WHERE name = ?
add_food_item(d, name, calories) ==
    LET d1 == InsertOrIgnoreFood(d, name, calories)
        row == CHOOSE r \in d1.food_items : r.name = name
    IN  [db |-> d1, ret |-> row.food_id]

\* an upsert on (log_date, food_id): the quantity of an existing row grows
log_nutrition_entry_merge(d, log_date, food_id, quantity) ==
    LET d1 == ensure_daily_log_exists(d, log_date) IN
    IF \E r \in d1.nutrition_log : r.log_date = log_date /\ r.food_id = food_id
    THEN [d1 EXCEPT !.nutrition_log =
            { IF r.log_date = log_date /\ r.food_id = food_id
              THEN [r EXCEPT !.quantity = @ + quantity]
              ELSE r : r \in @ }]
    ELSE [d1 EXCEPT !.nutrition_log = @ \cup
            {[nutrition_id |-> NextRowId({ r.nutrition_id : r \in d1.nutrition_log }),
              log_date |-> log_date, food_id |-> food_id,
              quantity |-> quantity]}]

\* ensure, then INSERT INTO nutrition_log (log_date, food_id, quantity)
\* quantity is in halves
log_nutrition_entry(d, log_date, food_id, quantity) ==
    LET d1 == ensure_daily_log_exists(d, log_date) IN
    [d1 EXCEPT !.nutrition_log = @ \cup
        {[nutrition_id |-> NextRowId({ r.nutrition_id : r \in d1.nutrition_log }),
          log_date |-> log_date, food_id |-> food_id,
          quantity |-> quantity]}]

\* quantity: float = 1.0, in halves
DefaultQuantity == 2

-----------------------------------------------------------------------------
(* Workout methods *)

\* a plain INSERT into a table whose name column is not UNIQUE
add_or_get_workout_plain_insert(d, workout_name) ==
    LET d1 == [d EXCEPT !.workouts = @ \cup
                 {[workout_id |-> NextRowId({ r.workout_id : r \in d.workouts }),
                   name |-> workout_name]}]
        row == CHOOSE r \in d1.workouts :
                 /\ r.name = workout_name
                 /\ \A o \in d1.workouts :
                      o.name = workout_name => o.workout_id <= r.workout_id
    IN  [db |-> d1, ret |-> row.workout_id]

\* INSERT OR IGNORE INTO workouts (name); SELECT workout_id ... WHERE name
add_or_get_workout(d, workout_name) ==
    LET d1 == IF \E r \in d.workouts : r.name = workout_name
              THEN d
              ELSE [d EXCEPT !.workouts = @ \cup
                      {[workout_id |-> NextRowId({ r.workout_id : r \in d.workouts }),
                        name |-> workout_name]}]
        row == CHOOSE r \in d1.workouts : r.name = workout_name
    IN  [db |-> d1, ret |-> row.workout_id]

\* INSERT OR REPLACE semantics: the calories of an existing exercise follow
\* the call
add_or_get_exercise_update(d, name, calories_burned) ==
    LET d1 == IF \E r \in d.exercises : r.name = name
              THEN [d EXCEPT !.exercises =
                      { IF r.name = name
                        THEN [r EXCEPT !.calories_burned = calories_burned]
                        ELSE r : r \in @ }]
              ELSE [d EXCEPT !.exercises = @ \cup
                      {[exercise_id |-> NextRowId({ r.exercise_id : r \in d.exercises }),
                        name |-> name, calories_burned |-> calories_burned]}]
        row == CHOOSE r \in d1.exercises : r.name = name
    IN  [db |-> d1, ret |-> row.exercise_id]

\* INSERT OR IGNORE INTO exercises (name, calories_burned);
\* SELECT exercise_id ... WHERE name
add_or_get_exercise(d, name, calories_burned) ==
    LET d1 == IF \E r \in d.exercises : r.name = name
              THEN d
              ELSE [d EXCEPT !.exercises = @ \cup
                      {[exercise_id |-> NextRowId({ r.exercise_id : r \in d.exercises }),
                        name |-> name, calories_burned |-> calories_burned]}]
        row == CHOOSE r \in d1.exercises : r.name = name
    IN  [db |-> d1, ret |-> row.exercise_id]

\* the INSERT without the ensure before it
log_workout_no_ensure(d, log_date, workout_id) ==
    [d EXCEPT !.workout_log = @ \cup
        {[workout_log_id |-> NextRowId({ r.workout_log_id : r \in d.workout_log }),
          log_date |-> log_date, workout_id |-> workout_id]}]

\* ensure, then INSERT INTO workout_log (log_date, workout_id)
log_workout(d, log_date, workout_id) ==
    LET d1 == ensure_daily_log_exists(d, log_date) IN
    [d1 EXCEPT !.workout_log = @ \cup
        {[workout_log_id |-> NextRowId({ r.workout_log_id : r \in d1.workout_log }),
          log_date |-> log_date, workout_id |-> workout_id]}]

-----------------------------------------------------------------------------
(* Calorie tracking methods *)

\* a DELETE without its WHERE clause: the table keeps one weight in all
log_weight_replace_all(d, log_date, weight_lbs) ==
    LET d1 == ensure_daily_log_exists(d, log_date) IN
    [d1 EXCEPT !.weight_log =
        {[weight_id |-> 1, log_date |-> log_date, weight_lbs |-> weight_lbs]}]

\* the DELETE left out
log_weight_append(d, log_date, weight_lbs) ==
    LET d1 == ensure_daily_log_exists(d, log_date) IN
    [d1 EXCEPT !.weight_log = @ \cup
        {[weight_id |-> NextRowId({ r.weight_id : r \in d1.weight_log }),
          log_date |-> log_date, weight_lbs |-> weight_lbs]}]

\* ensure, then DELETE FROM weight_log WHERE log_date = ?, then
\* INSERT INTO weight_log (log_date, weight_lbs)
log_weight(d, log_date, weight_lbs) ==
    LET d1 == ensure_daily_log_exists(d, log_date)
        kept == { r \in d1.weight_log : r.log_date # log_date }
    IN  [d1 EXCEPT !.weight_log = kept \cup
            {[weight_id |-> NextRowId({ r.weight_id : r \in kept }),
              log_date |-> log_date, weight_lbs |-> weight_lbs]}]

\* ORDER BY weight_id DESC in place of ORDER BY log_date DESC
get_most_recent_weight_last_inserted(d) ==
    IF d.weight_log = {} THEN None
    ELSE LET row == CHOOSE r \in d.weight_log :
                      \A o \in d.weight_log : o.weight_id <= r.weight_id
         IN  Some([weight_lbs |-> row.weight_lbs, log_date |-> row.log_date])

\* SELECT weight_lbs, log_date FROM weight_log ORDER BY log_date DESC
\* LIMIT 1; fetchone()
get_most_recent_weight(d) ==
    IF d.weight_log = {} THEN None
    ELSE LET row == CHOOSE r \in d.weight_log :
                      \A o \in d.weight_log : ~TextLess(r.log_date, o.log_date)
         IN  Some([weight_lbs |-> row.weight_lbs, log_date |-> row.log_date])

\* int(x) of a number kept in halves: truncation toward zero
IntOfHalves(h) == IF h >= 0 THEN h \div 2 ELSE -((-h) \div 2)

\* SUM(fi.calories): the quantity left out
get_total_consumed_calories_unit_quantity(d, log_date) ==
    LET joined == { <<nl, fi>> \in d.nutrition_log \X d.food_items :
                      nl.food_id = fi.food_id /\ nl.log_date = log_date }
        term == [p \in joined |-> p[2].calories]
    IN  IF joined = {} THEN 0 ELSE SumOver(joined, term)

\* SELECT SUM(fi.calories * nl.quantity) FROM nutrition_log nl
\* JOIN food_items fi ON nl.food_id = fi.food_id WHERE nl.log_date = ?
\* SUM over no row is NULL; int(result) otherwise
get_total_consumed_calories_for_date(d, log_date) ==
    LET joined == { <<nl, fi>> \in d.nutrition_log \X d.food_items :
                      nl.food_id = fi.food_id /\ nl.log_date = log_date }
        term == [p \in joined |-> p[2].calories * p[1].quantity]
    IN  IF joined = {} THEN 0 ELSE IntOfHalves(SumOver(joined, term))

\* the join through workout_components the schema provides for
get_total_workout_calories_components(d, log_date) ==
    LET joined == { <<wl, wc, e>> \in
                      d.workout_log \X d.workout_components \X d.exercises :
                      /\ wl.workout_id = wc.workout_id
                      /\ wc.exercise_id = e.exercise_id
                      /\ wl.log_date = log_date }
        term == [p \in joined |-> p[3].calories_burned]
    IN  IF joined = {} THEN 0 ELSE SumOver(joined, term)

\* SELECT SUM(e.calories_burned) FROM workout_log wl
\* JOIN workouts w ON wl.workout_id = w.workout_id
\* JOIN exercises e ON e.name = w.name WHERE wl.log_date = ?
get_total_workout_calories_for_date(d, log_date) ==
    LET joined == { <<wl, w, e>> \in d.workout_log \X d.workouts \X d.exercises :
                      /\ wl.workout_id = w.workout_id
                      /\ e.name = w.name
                      /\ wl.log_date = log_date }
        term == [p \in joined |-> p[3].calories_burned]
    IN  IF joined = {} THEN 0 ELSE SumOver(joined, term)

-----------------------------------------------------------------------------
(* User profile methods *)

\* INSERT OR IGNORE in place of INSERT OR REPLACE: the first profile stays
create_or_update_user_profile_ignore(d, profile_data) ==
    IF \E r \in d.user_profile : r.profile_id = 1
    THEN d
    ELSE [d EXCEPT !.user_profile = @ \cup
            {[profile_id |-> 1, user_name |-> profile_data.user_name,
              height_cm |-> profile_data.height_cm,
              birth_date |-> profile_data.birth_date,
              sex_at_birth |-> profile_data.sex_at_birth]}]

\* INSERT OR REPLACE INTO user_profile (profile_id, ...) VALUES (1, ...)
create_or_update_user_profile(d, profile_data) ==
    [d EXCEPT !.user_profile = { r \in @ : r.profile_id # 1 } \cup
        {[profile_id |-> 1, user_name |-> profile_data.user_name,
          height_cm |-> profile_data.height_cm,
          birth_date |-> profile_data.birth_date,
          sex_at_birth |-> profile_data.sex_at_birth]}]

\* SELECT user_name, height_cm, birth_date, sex_at_birth FROM user_profile
\* WHERE profile_id = 1; fetchone()
get_user_profile(d) ==
    LET rows == { r \in d.user_profile : r.profile_id = 1 } IN
    IF rows = {} THEN None
    ELSE LET row == CHOOSE r \in rows : TRUE IN
         Some([user_name |-> row.user_name, height_cm |-> row.height_cm,
               birth_date |-> row.birth_date,
               sex_at_birth |-> row.sex_at_birth])

-----------------------------------------------------------------------------
(* The report logic: app/logic.py                                           *)
(*                                                                          *)
(* The floats of the calculation are kept as exact multiples of a unit: a   *)
(* weight in kilograms counts 1/125000 kg (0.453592 = 56699 / 125000), an   *)
(* energy (BMR, TDEE) counts 1/62500 kcal.  Heights, ages, pounds and the   *)
(* calories read from the database are whole numbers.                       *)

\* n kcal as an energy
Kcal(n) == 62500 * n

\* (a, b) < (c, d) on Python tuples
TupleLess(a, b) == a[1] < b[1] \/ (a[1] = b[1] /\ a[2] < b[2])

\* <= in place of <: the year is not counted on the birthday itself
calculate_age_late(birth_date_str, today) ==
    LET birth_date == fromisoformat(birth_date_str) IN
    today[1] - birth_date[1]
      - (IF ~TupleLess(<<birth_date[2], birth_date[3]>>, <<today[2], today[3]>>)
         THEN 1 ELSE 0)

\* _calculate_age; today is what date.today() returns
calculate_age(birth_date_str, today) ==
    LET birth_date == fromisoformat(birth_date_str) IN
    today[1] - birth_date[1]
      - (IF TupleLess(<<today[2], today[3]>>, <<birth_date[2], birth_date[3]>>)
         THEN 1 ELSE 0)

\* _lbs_to_kg: weight_lbs * 0.453592, in 1/125000 kg
lbs_to_kg(weight_lbs) == weight_lbs * 56699

\* the answers to "What is your sex at birth (Male/Female)?" of the
\* exploration
SexValues == {"Male", "Female", "male", "FEMALE", "Other", ""}

\* str.lower() on those answers
lower(str) ==
    CASE str = "Male"   -> "male"
      [] str = "male"   -> "male"
      [] str = "Female" -> "female"
      [] str = "FEMALE" -> "female"
      [] str = "Other"  -> "other"
      [] str = ""       -> ""

\* the Mifflin-St Jeor terms: 10 * weight_kg is 5 energy units for each
\* 1/125000 kg, 6.25 * height_cm is 25/4 kcal for each cm
MifflinStJeor(weight_kg, height_cm, age, offset) ==
    (5 * weight_kg) + ((25 * Kcal(height_cm)) \div 4) - Kcal(5 * age)
      + Kcal(offset)

\* the sex compared as it was typed
calculate_bmr_exact_match(profile, weight_lbs, today) ==
    LET age == calculate_age(profile.birth_date, today)
        weight_kg == lbs_to_kg(weight_lbs)
        height_cm == profile.height_cm
        sex_at_birth == profile.sex_at_birth
    IN  IF sex_at_birth = "Male"
        THEN MifflinStJeor(weight_kg, height_cm, age, 5)
        ELSE IF sex_at_birth = "Female"
        THEN MifflinStJeor(weight_kg, height_cm, age, -161)
        ELSE MifflinStJeor(weight_kg, height_cm, age, 5)

\* calculate_bmr
calculate_bmr(profile, weight_lbs, today) ==
    LET age == calculate_age(profile.birth_date, today)
        weight_kg == lbs_to_kg(weight_lbs)
        height_cm == profile.height_cm
        sex_at_birth == profile.sex_at_birth
    IN  IF lower(sex_at_birth) = "male"
        THEN MifflinStJeor(weight_kg, height_cm, age, 5)
        ELSE IF lower(sex_at_birth) = "female"
        THEN MifflinStJeor(weight_kg, height_cm, age, -161)
        ELSE MifflinStJeor(weight_kg, height_cm, age, 5)

\* the multiplier applied to the activity too
calculate_tdee_all_scaled(bmr, activity_calories) ==
    (6 * (bmr + Kcal(activity_calories))) \div 5

\* calculate_tdee: bmr * 1.2 + activity_calories
calculate_tdee(bmr, activity_calories) ==
    LET sedentary_tdee == (6 * bmr) \div 5 IN
    sedentary_tdee + Kcal(activity_calories)

\* Python's round() of an energy to a whole number of kcal: to the nearest,
\* a half to the even neighbour
round(x) ==
    LET q == x \div Kcal(1)
        r == x % Kcal(1)
    IN  IF 2 * r < Kcal(1) THEN q
        ELSE IF 2 * r > Kcal(1) THEN q + 1
        ELSE IF q % 2 = 0 THEN q ELSE q + 1

\* a balance of zero shown as a deficit
display_calorie_summary_zero_deficit(tdee, consumed, deficit, weight_lbs, weight_date) ==
    [calories |-> IF deficit >= 0 THEN deficit ELSE -deficit,
     weight_lbs |-> weight_lbs, tdee |-> round(tdee), consumed |-> consumed,
     weight_date |-> weight_date,
     result |-> IF deficit >= 0 THEN "deficit" ELSE "surplus"]

\* display_calorie_summary, ui.py 100-112: what the lines printed say
display_calorie_summary(tdee, consumed, deficit, weight_lbs, weight_date) ==
    [calories |-> IF deficit > 0 THEN deficit ELSE -deficit,
     weight_lbs |-> weight_lbs, tdee |-> round(tdee), consumed |-> consumed,
     weight_date |-> weight_date,
     result |-> IF deficit > 0 THEN "deficit" ELSE "surplus"]

\* main.py 104-115: the calculations and the summary
DailyReport(user_profile, weight_data, consumed_calories, activity_calories, today) ==
    LET bmr == calculate_bmr(user_profile, weight_data.weight_lbs, today)
        tdee == calculate_tdee(bmr, activity_calories)
        deficit == round(tdee - Kcal(consumed_calories))
    IN  display_calorie_summary(tdee, consumed_calories, deficit,
                                weight_data.weight_lbs, weight_data.log_date)

-----------------------------------------------------------------------------
(* main.py: one run of the program *)

\* config.ini: the default workout's name and calories
Configs ==
    { [default_workout_name |-> "Run", default_workout_calories |-> 250] }

\* what prompt_for_user_profile returns
Profiles ==
    { [user_name |-> "U", height_cm |-> 180,
       birth_date |-> isoformat(<<1990, 1, 15>>), sex_at_birth |-> sx] :
      sx \in {"Male", "Female"} }

\* what run_morning_prompts returns
MorningData ==
    [dreams : {""}, intentions : {"t"}, weight_lbs : {None, Some(181)}]

\* what prompt_for_nutrition returns: the first items of the day's menu,
\* which names one food twice with different calories
Menu ==
    << [name |-> "Pizza", calories |-> 150], [name |-> "Salad", calories |-> 350],
       [name |-> "Pizza", calories |-> 350] >>

NutritionData ==
    { SubSeq(Menu, 1, k) : k \in 0..(IF MaxFoods < 3 THEN MaxFoods ELSE 3) }

\* what run_evening_prompts returns
EveningData ==
    { [review_of_intentions |-> t[1], accomplishment |-> t[2], mood |-> t[3],
       nutrition |-> n, did_workout |-> w] :
      t \in { <<"t", "", "t">> },
      n \in NutritionData, w \in BOOLEAN }

\* the profile prompt is shown only when no profile is stored
ProfileInputs(d) ==
    IF get_user_profile(d) = None
    THEN { p \in Profiles : p.sex_at_birth = "Male" }
    ELSE {None}

\* main.py 31-37: the profile is asked for when there is none
ProfileHandling(d, profile_data) ==
    IF get_user_profile(d) = None
    THEN create_or_update_user_profile(d, profile_data)
    ELSE d

\* main.py 49-60
MorningRoutine(d, today_str, morning_data) ==
    LET d1 == clear_morning_data_for_date(d, today_str)
        d2 == save_morning_log(d1, today_str, morning_data.dreams,
                               morning_data.intentions)
    IN  IF morning_data.weight_lbs # None
        THEN log_weight(d2, today_str, morning_data.weight_lbs[1])
        ELSE d2

\* main.py 76-78: for food_item in nutrition: add_food_item, then
\* log_nutrition_entry with the default quantity
RECURSIVE SaveNutrition(_, _, _)
SaveNutrition(d, today_str, nutrition) ==
    IF nutrition = <<>> THEN d
    ELSE LET food_item == Head(nutrition)
             added == add_food_item(d, food_item.name, food_item.calories)
         IN  SaveNutrition(
                 log_nutrition_entry(added.db, today_str, added.ret,
                                     DefaultQuantity),
                 today_str, Tail(nutrition))

\* main.py 81-86
SaveWorkout(d, today_str, config, did_workout) ==
    IF did_workout
    THEN LET d1 == add_or_get_exercise(d, config.default_workout_name,
                                       config.default_workout_calories).db
             w  == add_or_get_workout(d1, config.default_workout_name)
         IN  log_workout(w.db, today_str, w.ret)
    ELSE d

\* the evening branch without its clear
EveningRoutine_no_clear(d, today_str, config, evening_data) ==
    LET d2 == save_evening_log(d, today_str,
                               evening_data.review_of_intentions,
                               evening_data.accomplishment, evening_data.mood)
        d3 == SaveNutrition(d2, today_str, evening_data.nutrition)
    IN  SaveWorkout(d3, today_str, config, evening_data.did_workout)

\* main.py 62-89: the writes of the evening branch
EveningRoutine(d, today_str, config, evening_data) ==
    LET d1 == clear_evening_data_for_date(d, today_str)
        d2 == save_evening_log(d1, today_str,
                               evening_data.review_of_intentions,
                               evening_data.accomplishment, evening_data.mood)
        d3 == SaveNutrition(d2, today_str, evening_data.nutrition)
    IN  SaveWorkout(d3, today_str, config, evening_data.did_workout)

\* a weight of 0 in place of the exit
EveningReport_default_weight(d, today_str) ==
    LET weight_data == get_most_recent_weight(d)
        used == IF weight_data = None
                THEN [weight_lbs |-> 0, log_date |-> today_str]
                ELSE weight_data[1]
    IN  [exit_code |-> 0,
         report |-> Some(DailyReport(
            get_user_profile(d)[1], used,
            get_total_consumed_calories_for_date(d, today_str),
            get_total_workout_calories_for_date(d, today_str),
            fromisoformat(today_str)))]

\* main.py 93-115: sys.exit(1) when no weight has been logged, the summary
\* shown otherwise
EveningReport(d, today_str) ==
    LET weight_data == get_most_recent_weight(d) IN
    IF weight_data = None
    THEN [exit_code |-> 1, report |-> None]
    ELSE [exit_code |-> 0,
          report |-> Some(DailyReport(
            get_user_profile(d)[1], weight_data[1],
            get_total_consumed_calories_for_date(d, today_str),
            get_total_workout_calories_for_date(d, today_str),
            fromisoformat(today_str)))]

\* main(): setup, profile handling, then the routine the command names
main(d, command, today_str, config, profile_data, data) ==
    LET d0 == ProfileHandling(setup(d).db, profile_data) IN
    IF command = "morning"
    THEN [db |-> MorningRoutine(d0, today_str, data),
          ret |-> [exit_code |-> 0, report |-> None]]
    ELSE IF command = "evening"
    THEN LET d1 == EveningRoutine(d0, today_str, config, data) IN
         [db |-> d1, ret |-> EveningReport(d1, today_str)]
    ELSE [db |-> d0, ret |-> [exit_code |-> 0, report |-> None]]

-----------------------------------------------------------------------------
(* The state machine: one step is one repository call or one run of main *)

\* db is the database file, hist the calls made so far, ret what the last
\* call returned, conn the connection of the manager the calls are made on;
\* the manager has been set up on a new file
Init ==
    /\ db = setup(NoTables).db
    /\ hist = <<>>
    /\ ret = None
    /\ conn = "open"
    /\ txn = None
    /\ pc = Idle

\* a call that writes
Write(op, args, newdb, result) ==
    /\ Len(hist) < MaxOps
    /\ db' = newdb
    /\ hist' = Append(hist, [op |-> op, args |-> args])
    /\ ret' = result
    /\ UNCHANGED <<conn, txn, pc>>

\* a call that only reads
Read(op, args, result) ==
    /\ Len(hist) < MaxOps
    /\ hist' = Append(hist, [op |-> op, args |-> args])
    /\ ret' = result
    /\ UNCHANGED <<db, conn, txn, pc>>

EnsureDailyLog ==
    \E D \in Dates :
        Write("ensure_daily_log_exists", <<D>>,
              ensure_daily_log_exists(db, D), None)

SaveMorningLog ==
    \E D \in Dates, dreams \in Texts, intentions \in Texts :
        Write("save_morning_log", <<D, dreams, intentions>>,
              save_morning_log(db, D, dreams, intentions), None)

SaveEveningLog ==
    \E D \in Dates, t \in EveningTexts :
        Write("save_evening_log", <<D, t[1], t[2], t[3]>>,
              save_evening_log(db, D, t[1], t[2], t[3]), None)

ClearMorning ==
    \E D \in Dates :
        Write("clear_morning_data_for_date", <<D>>,
              clear_morning_data_for_date(db, D), None)

ClearEvening ==
    \E D \in Dates :
        Write("clear_evening_data_for_date", <<D>>,
              clear_evening_data_for_date(db, D), None)

AddFoodItem ==
    \E name \in FoodNames, calories \in FoodCalories :
        LET r == add_food_item(db, name, calories) IN
        Write("add_food_item", <<name, calories>>, r.db, r.ret)

\* the quantity is passed, or left to its default
LogNutritionEntry ==
    \E D \in Dates, food_id \in Ids, quantity \in Halves \cup {DefaultQuantity} :
        Write("log_nutrition_entry", <<D, food_id, quantity>>,
              log_nutrition_entry(db, D, food_id, quantity), None)

AddOrGetWorkout ==
    \E name \in WorkoutNames :
        LET r == add_or_get_workout(db, name) IN
        Write("add_or_get_workout", <<name>>, r.db, r.ret)

AddOrGetExercise ==
    \E name \in WorkoutNames, calories \in ExerciseCalories :
        LET r == add_or_get_exercise(db, name, calories) IN
        Write("add_or_get_exercise", <<name, calories>>, r.db, r.ret)

LogWorkout ==
    \E D \in Dates, workout_id \in Ids :
        Write("log_workout", <<D, workout_id>>,
              log_workout(db, D, workout_id), None)

LogWeight ==
    \E D \in Dates, w \in Weights :
        Write("log_weight", <<D, w>>, log_weight(db, D, w), None)

CreateOrUpdateUserProfile ==
    \E p \in Profiles :
        Write("create_or_update_user_profile", <<p>>,
              create_or_update_user_profile(db, p), None)

GetUserProfile == Read("get_user_profile", <<>>, get_user_profile(db))

GetYesterdaysIntentions ==
    \E D \in Dates :
        Read("get_yesterdays_intentions", <<D>>,
             get_yesterdays_intentions(db, D))

GetTodaysIntentions ==
    \E D \in Dates :
        Read("get_todays_intentions", <<D>>, get_todays_intentions(db, D))

GetMostRecentWeight ==
    Read("get_most_recent_weight", <<>>, get_most_recent_weight(db))

GetTotalConsumedCalories ==
    \E D \in Dates :
        Read("get_total_consumed_calories_for_date", <<D>>,
             get_total_consumed_calories_for_date(db, D))

GetTotalWorkoutCalories ==
    \E D \in Dates :
        Read("get_total_workout_calories_for_date", <<D>>,
             get_total_workout_calories_for_date(db, D))

MainMorning ==
    \E today \in Dates, config \in Configs, p \in ProfileInputs(db), data \in MorningData :
        LET r == main(db, "morning", today, config, p, data) IN
        Write("main", <<"morning", today, config, data>>, r.db, r.ret)

MainEvening ==
    \E today \in Dates, config \in Configs, p \in ProfileInputs(db), data \in EveningData :
        LET r == main(db, "evening", today, config, p, data) IN
        Write("main", <<"evening", today, config, data>>, r.db, r.ret)

MainNoCommand ==
    \E today \in Dates, config \in Configs, p \in ProfileInputs(db) :
        LET r == main(db, "none", today, config, p, None) IN
        Write("main", <<"none", today, config, None>>, r.db, r.ret)

Next ==
    \/ EnsureDailyLog
    \/ SaveMorningLog
    \/ SaveEveningLog
    \/ ClearMorning
    \/ ClearEvening
    \/ AddFoodItem
    \/ LogNutritionEntry
    \/ AddOrGetWorkout
    \/ AddOrGetExercise
    \/ LogWorkout
    \/ LogWeight
    \/ CreateOrUpdateUserProfile
    \/ GetUserProfile
    \/ GetYesterdaysIntentions
    \/ GetTodaysIntentions
    \/ GetMostRecentWeight
    \/ GetTotalConsumedCalories
    \/ GetTotalWorkoutCalories
    \/ MainMorning
    \/ MainEvening
    \/ MainNoCommand

Spec == Init /\ [][Next]_vars

-----------------------------------------------------------------------------
(* The life of one manager: __init__, connect, create_tables, setup, close,  *)
(* calls on its connection, and runs of main on the same database file       *)

\* after DatabaseManager(db_path) on a path where there is no file yet
InitSetup ==
    /\ db = NoTables
    /\ hist = <<>>
    /\ ret = None
    /\ conn = "none"
    /\ txn = None
    /\ pc = Idle

\* a call on the manager
Call(op, args, newdb, result, newconn) ==
    /\ Len(hist) < MaxCalls
    /\ db' = newdb
    /\ hist' = Append(hist, [op |-> op, args |-> args])
    /\ ret' = result
    /\ conn' = newconn
    /\ UNCHANGED <<txn, pc>>

\* a repository method: cursor = self.conn.cursor(), the statements, commit
OnConnection(op, args, newdb, result) ==
    IF conn = "none" THEN Call(op, args, db, NoConnection, conn)
    ELSE IF conn = "closed" THEN Call(op, args, db, ClosedDatabase, conn)
    ELSE IF DOMAIN db # DOMAIN EmptyDb THEN Call(op, args, db, NoSuchTable, conn)
    ELSE Call(op, args, newdb, result, conn)

\* connect(): sqlite3.connect creates the file when there is none
Connect == Call("connect", <<>>, db, None, "open")

\* close(): if self.conn: self.conn.close(); self.conn stays bound
Close == Call("close", <<>>, db, None, IF conn = "none" THEN "none" ELSE "closed")

CreateTables ==
    LET r == create_tables(conn, db) IN
    Call("create_tables", <<>>, r.db, r.ret, conn)

Setup ==
    LET r == setup(db) IN
    Call("setup", <<>>, r.db, r.ret, "open")

ManagerLogWeight ==
    \E D \in Dates, w \in Weights :
        OnConnection("log_weight", <<D, w>>, log_weight(db, D, w), None)

ManagerAddFoodItem ==
    \E name \in FoodNames :
        OnConnection("add_food_item", <<name, 350>>,
                     add_food_item(db, name, 350).db,
                     add_food_item(db, name, 350).ret)

\* a run of the program on the file, with a manager of its own
ProgramRun ==
    \E command \in {"morning", "evening"}, today \in Dates, config \in Configs,
       p \in { q \in Profiles : q.sex_at_birth = "Male" } :
        \E data \in (IF command = "morning" THEN MorningData
                     ELSE { e \in EveningData : e.did_workout }) :
            LET r == main(db, command, today, config, p, data) IN
            Call("main", <<command, today, config, data>>, r.db, r.ret, conn)

NextSetup ==
    \/ Connect
    \/ Close
    \/ CreateTables
    \/ Setup
    \/ ManagerLogWeight
    \/ ManagerAddFoodItem
    \/ ProgramRun

SpecSetup == InitSetup /\ [][NextSetup]_vars

-----------------------------------------------------------------------------
(* The report logic on its own: the functions of app/logic.py, the rounding  *)
(* of main.py and the summary of app/ui.py, called with inputs of every kind *)

BirthDates == { isoformat(dt) : dt \in { <<1990, 1, 15>>, <<1990, 3, 1>>, <<2000, 2, 29>> } }

\* what date.today() returns
EvalDates ==
    { <<2024, 1, 14>>, <<2024, 1, 15>>, <<2024, 2, 29>>, <<2024, 3, 1>>,
      <<2025, 2, 28>>, <<2025, 3, 1>> }

ReportProfiles ==
    [user_name : {"U"}, height_cm : {165, 180}, birth_date : BirthDates,
     sex_at_birth : SexValues]

ReportWeights == {135, 180, 181}

ActivityCalories == {0, 1, 250, 350}

ConsumedCalories == {0, 850, 2131, 2132, 2133, 3000}

\* BMR values: those of the profiles, and 1776.47
BmrValues ==
    { calculate_bmr(p, w, <<2024, 3, 1>>) : p \in ReportProfiles, w \in ReportWeights }
      \cup { Kcal(1776) + 29375 }

\* energies around whole and half kcal, of both signs
EnergyValues ==
    { Kcal(k) + f : k \in {-3, -2, -1, 0, 1, 2, 1632},
                    f \in {0, 31249, 31250, 31251, 47500} }

InitReport ==
    /\ db = NoTables
    /\ hist = <<>>
    /\ ret = None
    /\ conn = "none"
    /\ txn = None
    /\ pc = Idle

\* a function is called and returns; nothing is kept between calls
Calc(op, args, result) ==
    /\ hist' = <<[op |-> op, args |-> args]>>
    /\ ret' = result
    /\ UNCHANGED <<db, conn, txn, pc>>

CalculateAge ==
    \E b \in BirthDates, today \in EvalDates :
        Calc("calculate_age", <<b, today>>, calculate_age(b, today))

CalculateBmr ==
    \E p \in ReportProfiles, w \in ReportWeights, today \in EvalDates :
        Calc("calculate_bmr", <<p, w, today>>, calculate_bmr(p, w, today))

CalculateTdee ==
    \E bmr \in BmrValues, a \in ActivityCalories :
        Calc("calculate_tdee", <<bmr, a>>, calculate_tdee(bmr, a))

RoundEnergy ==
    \E x \in EnergyValues : Calc("round", <<x>>, round(x))

DisplayCalorieSummary ==
    \E tdee \in { Kcal(2131) + 47500 }, consumed \in ConsumedCalories,
       deficit \in {-500, -1, 0, 1, 1632} :
        Calc("display_calorie_summary", <<tdee, consumed, deficit>>,
             display_calorie_summary(tdee, consumed, deficit, 180,
                                     isoformat(<<2024, 3, 1>>)))

ShowDailyReport ==
    \E p \in { q \in ReportProfiles : q.birth_date = isoformat(<<1990, 1, 15>>) },
       w \in ReportWeights, consumed \in ConsumedCalories,
       a \in {0, 350}, today \in { <<2024, 3, 1>> } :
        Calc("DailyReport", <<p, w, consumed, a, today>>,
             DailyReport(p, [log_date |-> isoformat(today), weight_lbs |-> w],
                         consumed, a, today))

NextReport ==
    \/ CalculateAge
    \/ CalculateBmr
    \/ CalculateTdee
    \/ RoundEnergy
    \/ DisplayCalorieSummary
    \/ ShowDailyReport

SpecReport == InitReport /\ [][NextReport]_vars

-----------------------------------------------------------------------------
(* The repository methods statement by statement.  sqlite3 opens a          *)
(* transaction before the first INSERT, UPDATE or DELETE that follows a     *)
(* commit, and conn.commit() writes the transaction to the file.  A         *)
(* statement is <<text, parameter, ...>>, and <<"commit">> is the call of   *)
(* self.conn.commit().                                                      *)

\* number of method calls, crashes and reconnections in one behaviour
MaxWrites == 2

commit == <<"commit">>

\* the three statements committed one by one
clear_evening_data_autocommit_statements(log_date) ==
    << <<"DELETE FROM nutrition_log", log_date>>, commit,
       <<"DELETE FROM workout_log", log_date>>, commit,
       <<"UPDATE daily_log SET review_of_intentions = NULL, accomplishment = NULL, mood = NULL",
         log_date>>, commit >>

ensure_daily_log_exists_statements(log_date) ==
    << <<"INSERT OR IGNORE INTO daily_log", log_date>>, commit >>

save_morning_log_statements(log_date, dreams, intentions) ==
    ensure_daily_log_exists_statements(log_date) \o
    << <<"UPDATE daily_log SET dreams, intentions", log_date, dreams, intentions>>,
       commit >>

save_evening_log_statements(log_date, review, accomplishment, mood) ==
    ensure_daily_log_exists_statements(log_date) \o
    << <<"UPDATE daily_log SET review_of_intentions, accomplishment, mood",
         log_date, review, accomplishment, mood>>,
       commit >>

clear_morning_data_for_date_statements(log_date) ==
    << <<"UPDATE daily_log SET dreams = NULL, intentions = NULL", log_date>>,
       commit >>

clear_evening_data_for_date_statements(log_date) ==
    << <<"DELETE FROM nutrition_log", log_date>>,
       <<"DELETE FROM workout_log", log_date>>,
       <<"UPDATE daily_log SET review_of_intentions = NULL, accomplishment = NULL, mood = NULL",
         log_date>>,
       commit >>

\* the SELECT that follows the commit reads and opens no transaction
add_food_item_statements(name, calories) ==
    << <<"INSERT OR IGNORE INTO food_items", name, calories>>, commit >>

log_nutrition_entry_statements(log_date, food_id, quantity) ==
    ensure_daily_log_exists_statements(log_date) \o
    << <<"INSERT INTO nutrition_log", log_date, food_id, quantity>>, commit >>

add_or_get_workout_statements(workout_name) ==
    << <<"INSERT OR IGNORE INTO workouts", workout_name>>, commit >>

add_or_get_exercise_statements(name, calories_burned) ==
    << <<"INSERT OR IGNORE INTO exercises", name, calories_burned>>, commit >>

\* the commit after the INSERT left out
log_workout_statements_uncommitted(log_date, workout_id) ==
    ensure_daily_log_exists_statements(log_date) \o
    << <<"INSERT INTO workout_log", log_date, workout_id>> >>

log_workout_statements(log_date, workout_id) ==
    ensure_daily_log_exists_statements(log_date) \o
    << <<"INSERT INTO workout_log", log_date, workout_id>>, commit >>

log_weight_statements(log_date, weight_lbs) ==
    ensure_daily_log_exists_statements(log_date) \o
    << <<"DELETE FROM weight_log", log_date>>,
       <<"INSERT INTO weight_log", log_date, weight_lbs>>,
       commit >>

create_or_update_user_profile_statements(profile_data) ==
    << <<"INSERT OR REPLACE INTO user_profile", profile_data>>, commit >>

\* cursor.execute(statement) on the tables d the connection sees
execute(d, s) ==
    CASE s[1] = "INSERT OR IGNORE INTO daily_log" ->
           ensure_daily_log_exists(d, s[2])
      [] s[1] = "UPDATE daily_log SET dreams, intentions" ->
           [d EXCEPT !.daily_log =
               { IF r.log_date = s[2]
                 THEN [r EXCEPT !.dreams = Some(s[3]), !.intentions = Some(s[4])]
                 ELSE r : r \in @ }]
      [] s[1] = "UPDATE daily_log SET review_of_intentions, accomplishment, mood" ->
           [d EXCEPT !.daily_log =
               { IF r.log_date = s[2]
                 THEN [r EXCEPT !.review_of_intentions = Some(s[3]),
                                !.accomplishment = Some(s[4]),
                                !.mood = Some(s[5])]
                 ELSE r : r \in @ }]
      [] s[1] = "UPDATE daily_log SET dreams = NULL, intentions = NULL" ->
           [d EXCEPT !.daily_log =
               { IF r.log_date = s[2]
                 THEN [r EXCEPT !.dreams = NULL, !.intentions = NULL]
                 ELSE r : r \in @ }]
      [] s[1] = "DELETE FROM nutrition_log" ->
           [d EXCEPT !.nutrition_log = { r \in @ : r.log_date # s[2] }]
      [] s[1] = "DELETE FROM workout_log" ->
           [d EXCEPT !.workout_log = { r \in @ : r.log_date # s[2] }]
      [] s[1] = "UPDATE daily_log SET review_of_intentions = NULL, accomplishment = NULL, mood = NULL" ->
           [d EXCEPT !.daily_log =
               { IF r.log_date = s[2]
                 THEN [r EXCEPT !.review_of_intentions = NULL,
                                !.accomplishment = NULL, !.mood = NULL]
                 ELSE r : r \in @ }]
      [] s[1] = "INSERT OR IGNORE INTO food_items" ->
           InsertOrIgnoreFood(d, s[2], s[3])
      [] s[1] = "INSERT INTO nutrition_log" ->
           [d EXCEPT !.nutrition_log = @ \cup
               {[nutrition_id |-> NextRowId({ r.nutrition_id : r \in d.nutrition_log }),
                 log_date |-> s[2], food_id |-> s[3], quantity |-> s[4]]}]
      [] s[1] = "INSERT OR IGNORE INTO workouts" ->
           add_or_get_workout(d, s[2]).db
      [] s[1] = "INSERT OR IGNORE INTO exercises" ->
           add_or_get_exercise(d, s[2], s[3]).db
      [] s[1] = "INSERT INTO workout_log" ->
           [d EXCEPT !.workout_log = @ \cup
               {[workout_log_id |-> NextRowId({ r.workout_log_id : r \in d.workout_log }),
                 log_date |-> s[2], workout_id |-> s[3]]}]
      [] s[1] = "DELETE FROM weight_log" ->
           [d EXCEPT !.weight_log = { r \in @ : r.log_date # s[2] }]
      [] s[1] = "INSERT INTO weight_log" ->
           [d EXCEPT !.weight_log = @ \cup
               {[weight_id |-> NextRowId({ r.weight_id : r \in d.weight_log }),
                 log_date |-> s[2], weight_lbs |-> s[3]]}]
      [] s[1] = "INSERT OR REPLACE INTO user_profile" ->
           create_or_update_user_profile(d, s[2])

\* pc of a method under way: <<method, arguments, statements, index of the
\* next statement, the database file when the method was called>>
Method == pc[1]
Arguments == pc[2]
Remaining == pc[4] <= Len(pc[3])
\* the tables as the connection sees them
View == IF txn = None THEN db ELSE txn[1]

\* the date most calls of this exploration are made for
Day == isoformat(<<2024, 3, 1>>)

\* the file after setup(), and the file after an evening of Day with one
\* food and the workout
CrashStores ==
    { setup(NoTables).db,
      EveningRoutine(setup(NoTables).db, Day,
                     CHOOSE config \in Configs : TRUE,
                     [review_of_intentions |-> "t", accomplishment |-> "",
                      mood |-> "t", nutrition |-> SubSeq(Menu, 1, 1),
                      did_workout |-> TRUE]) }

\* the manager is connected to a file on which setup() has run
InitCrash ==
    /\ db \in CrashStores
    /\ hist = <<>>
    /\ ret = None
    /\ conn = "open"
    /\ txn = None
    /\ pc = Idle

\* a method is called
Enter(op, args, statements) ==
    /\ pc = Idle
    /\ Len(hist) < MaxWrites
    /\ pc' = <<op, args, statements, 1, db>>
    /\ UNCHANGED <<db, hist, ret, conn, txn>>

EnterEnsureDailyLog ==
    Enter("ensure_daily_log_exists", <<Day>>,
          ensure_daily_log_exists_statements(Day))

EnterSaveMorningLog ==
    Enter("save_morning_log", <<Day, "", "t">>,
          save_morning_log_statements(Day, "", "t"))

EnterSaveEveningLog ==
    Enter("save_evening_log", <<Day, "r", "a", "m">>,
          save_evening_log_statements(Day, "r", "a", "m"))

EnterClearMorning ==
    Enter("clear_morning_data_for_date", <<Day>>,
          clear_morning_data_for_date_statements(Day))

EnterClearEvening ==
    \E D \in Dates :
        Enter("clear_evening_data_for_date", <<D>>,
              clear_evening_data_for_date_statements(D))

EnterAddFoodItem ==
    Enter("add_food_item", <<"Salad", 350>>,
          add_food_item_statements("Salad", 350))

EnterLogNutritionEntry ==
    \E D \in Dates :
        Enter("log_nutrition_entry", <<D, 1, DefaultQuantity>>,
              log_nutrition_entry_statements(D, 1, DefaultQuantity))

EnterAddOrGetWorkout ==
    Enter("add_or_get_workout", <<"Run">>, add_or_get_workout_statements("Run"))

EnterAddOrGetExercise ==
    Enter("add_or_get_exercise", <<"Run", 300>>,
          add_or_get_exercise_statements("Run", 300))

EnterLogWorkout ==
    Enter("log_workout", <<Day, 1>>, log_workout_statements(Day, 1))

EnterLogWeight ==
    \E D \in Dates :
        Enter("log_weight", <<D, 180>>, log_weight_statements(D, 180))

EnterCreateOrUpdateUserProfile ==
    \E p \in ProfileInputs(EmptyDb) :
        Enter("create_or_update_user_profile", <<p>>,
              create_or_update_user_profile_statements(p))

\* the next statement of the method runs
Execute ==
    /\ pc # Idle
    /\ Remaining
    /\ LET s == pc[3][pc[4]] IN
       IF s = commit
       THEN db' = View /\ txn' = None
       ELSE txn' = Some(execute(View, s)) /\ UNCHANGED db
    /\ pc' = [pc EXCEPT ![4] = @ + 1]
    /\ UNCHANGED <<hist, ret, conn>>

\* the method returns
Return ==
    /\ pc # Idle
    /\ ~Remaining
    /\ pc' = Idle
    /\ hist' = Append(hist, [op |-> Method, args |-> Arguments])
    /\ ret' = (CASE Method = "add_food_item" ->
                      add_food_item(View, Arguments[1], Arguments[2]).ret
                 [] Method = "add_or_get_workout" ->
                      add_or_get_workout(View, Arguments[1]).ret
                 [] Method = "add_or_get_exercise" ->
                      add_or_get_exercise(View, Arguments[1], Arguments[2]).ret
                 [] OTHER -> None)
    /\ UNCHANGED <<db, conn, txn>>

\* the process dies, between two statements or between two calls, and the
\* program is started again: the file holds what was committed, the open
\* transaction is rolled back
Crash ==
    /\ Len(hist) < MaxWrites
    /\ hist' = Append(hist, [op |-> "crash", args |-> <<pc>>])
    /\ ret' = None
    /\ txn' = None
    /\ pc' = Idle
    /\ UNCHANGED <<db, conn>>

\* close() between two calls, and connect() again: close() does not commit
Reconnect ==
    /\ pc = Idle
    /\ Len(hist) < MaxWrites
    /\ hist' = Append(hist, [op |-> "close", args |-> <<>>])
    /\ ret' = None
    /\ txn' = None
    /\ UNCHANGED <<db, conn, pc>>

NextCrash ==
    \/ EnterEnsureDailyLog
    \/ EnterSaveMorningLog
    \/ EnterSaveEveningLog
    \/ EnterClearMorning
    \/ EnterClearEvening
    \/ EnterAddFoodItem
    \/ EnterLogNutritionEntry
    \/ EnterAddOrGetWorkout
    \/ EnterAddOrGetExercise
    \/ EnterLogWorkout
    \/ EnterLogWeight
    \/ EnterCreateOrUpdateUserProfile
    \/ Execute
    \/ Return
    \/ Crash
    \/ Reconnect

SpecCrash == InitCrash /\ [][NextCrash]_vars

-----------------------------------------------------------------------------
(* One run of main() block by block.  pc is <<position, command, today_str, *)
(* data, file>>: the block that runs next, the command of the command line, *)
(* the date of the run, what the prompts of the routine returned (None      *)
(* before they have) and the database file the run started on.  hist lists  *)
(* the calls made on db_manager.                                            *)

Config == CHOOSE config \in Configs : TRUE

\* what the command line may hold: a routine, nothing, or a word that is
\* not among the choices
Commands == {"morning", "evening", "none", "mornin"}

\* an exception that no handler of main catches
ValueError == Raised("ValueError")
EOFError == Raised("EOFError")
\* argparse on an invalid choice: parser.error() exits with status 2
SystemExit(code) == [exit_code |-> code, report |-> None]

\* the database files a run may start on: a new file; the file after a
\* morning of the day before with a weight; that file with a food and an
\* exercise stored under other calorie values; the file after an evening
\* of Day
UsedStore ==
    main(NoTables, "morning", isoformat(<<2024, 2, 29>>), Config,
         CHOOSE p \in ProfileInputs(EmptyDb) : TRUE,
         [dreams |-> "", intentions |-> "t", weight_lbs |-> Some(181)]).db
StockedStore ==
    add_or_get_exercise(add_food_item(UsedStore, "Pizza", 95).db, "Run", 300).db
EveningStore ==
    main(UsedStore, "evening", Day, Config, None,
         [review_of_intentions |-> "t", accomplishment |-> "", mood |-> "t",
          nutrition |-> SubSeq(Menu, 1, 1), did_workout |-> TRUE]).db
MainStores == {NoTables, UsedStore, StockedStore, EveningStore}

InitMain ==
    /\ db \in MainStores
    /\ hist = <<>>
    /\ ret = None
    /\ conn = "none"
    /\ txn = None
    /\ pc = Idle

At(position) == pc # Idle /\ pc[1] = position
\* the run goes on at position; calls were made on db_manager
Goto(position, calls) ==
    /\ pc' = [pc EXCEPT ![1] = position]
    /\ hist' = hist \o calls
\* the run ends with an exception or an exit that skips the cleanup
Ends(result) ==
    /\ pc' = [pc EXCEPT ![1] = "ended"]
    /\ ret' = result
    /\ UNCHANGED <<db, hist, conn, txn>>

\* main.py 25-28
MainSetup ==
    /\ pc = Idle
    /\ \E command \in Commands, today_str \in Dates :
        pc' = <<"profile", command, today_str, None, db>>
    /\ db' = setup(db).db
    /\ conn' = "open"
    /\ hist' = hist \o <<[op |-> "setup", args |-> <<>>]>>
    /\ UNCHANGED <<ret, txn>>

\* main.py 31-37: the profile is stored, or asked for and saved
MainProfile ==
    /\ At("profile")
    /\ \E p \in ProfileInputs(db) :
        /\ db' = ProfileHandling(db, p)
        /\ Goto("parse",
                <<[op |-> "get_user_profile", args |-> <<>>]>> \o
                (IF p = None THEN <<>>
                 ELSE <<[op |-> "create_or_update_user_profile", args |-> <<p>>],
                        [op |-> "get_user_profile", args |-> <<>>]>>))
    /\ UNCHANGED <<ret, conn, txn>>

\* ui.py 13: float() of a height that is not a number
MainProfileRaises ==
    /\ At("profile")
    /\ get_user_profile(db) = None
    /\ Ends(ValueError)

\* main.py 42-44 and the branch of 49, 62, 117
MainParse ==
    /\ At("parse")
    /\ IF pc[2] \in {"morning", "evening", "none"}
       THEN /\ Goto(IF pc[2] = "none" THEN "cleanup" ELSE pc[2], <<>>)
            /\ UNCHANGED <<db, ret, conn, txn>>
       ELSE Ends(SystemExit(2))

\* main.py 50-51
MorningClear ==
    /\ At("morning")
    /\ db' = clear_morning_data_for_date(db, pc[3])
    /\ Goto("morning_prompts",
            <<[op |-> "clear_morning_data_for_date", args |-> <<pc[3]>>],
              [op |-> "get_yesterdays_intentions", args |-> <<pc[3]>>]>>)
    /\ UNCHANGED <<ret, conn, txn>>

\* main.py 52-59: the prompts return and their data is saved
MorningSave ==
    /\ At("morning_prompts")
    /\ \E data \in MorningData :
        /\ db' = LET d1 == save_morning_log(db, pc[3], data.dreams, data.intentions) IN
                 IF data.weight_lbs # None
                 THEN log_weight(d1, pc[3], data.weight_lbs[1]) ELSE d1
        /\ pc' = [pc EXCEPT ![1] = "cleanup", ![4] = data]
        /\ hist' = hist \o
             <<[op |-> "save_morning_log",
                args |-> <<pc[3], data.dreams, data.intentions>>]>> \o
             (IF data.weight_lbs # None
              THEN <<[op |-> "log_weight", args |-> <<pc[3], data.weight_lbs[1]>>]>>
              ELSE <<>>)
    /\ UNCHANGED <<ret, conn, txn>>

\* ui.py 35: float() of a weight that is not a number
MorningPromptsRaise ==
    /\ At("morning_prompts")
    /\ Ends(ValueError)

\* main.py 63-64
EveningClear ==
    /\ At("evening")
    /\ db' = clear_evening_data_for_date(db, pc[3])
    /\ Goto("evening_prompts",
            <<[op |-> "clear_evening_data_for_date", args |-> <<pc[3]>>],
              [op |-> "get_todays_intentions", args |-> <<pc[3]>>]>>)
    /\ UNCHANGED <<ret, conn, txn>>

\* the calls of main.py 76-78
RECURSIVE NutritionCalls(_, _, _)
NutritionCalls(d, today_str, nutrition) ==
    IF nutrition = <<>> THEN <<>>
    ELSE LET food_item == Head(nutrition)
             added == add_food_item(d, food_item.name, food_item.calories)
         IN  <<[op |-> "add_food_item",
                args |-> <<food_item.name, food_item.calories>>],
               [op |-> "log_nutrition_entry", args |-> <<today_str, added.ret>>]>>
             \o NutritionCalls(
                  log_nutrition_entry(added.db, today_str, added.ret, DefaultQuantity),
                  today_str, Tail(nutrition))

\* main.py 65-89: the prompts return and their data is saved
EveningSave ==
    /\ At("evening_prompts")
    /\ \E data \in EveningData :
        LET d2 == save_evening_log(db, pc[3], data.review_of_intentions,
                                   data.accomplishment, data.mood)
            d3 == SaveNutrition(d2, pc[3], data.nutrition)
        IN  /\ db' = SaveWorkout(d3, pc[3], Config, data.did_workout)
            /\ pc' = [pc EXCEPT ![1] = "report", ![4] = data]
            /\ hist' = hist \o
                 <<[op |-> "save_evening_log",
                    args |-> <<pc[3], data.review_of_intentions,
                               data.accomplishment, data.mood>>]>> \o
                 NutritionCalls(d2, pc[3], data.nutrition) \o
                 (IF data.did_workout
                  THEN <<[op |-> "add_or_get_exercise",
                          args |-> <<Config.default_workout_name,
                                     Config.default_workout_calories>>],
                         [op |-> "add_or_get_workout",
                          args |-> <<Config.default_workout_name>>],
                         [op |-> "log_workout",
                          args |-> <<pc[3],
                                     add_or_get_workout(
                                         db', Config.default_workout_name).ret>>]>>
                  ELSE <<>>)
    /\ UNCHANGED <<ret, conn, txn>>

\* input() at the end of the input or on Ctrl-C, ui.py 55-57, 77, 96
EveningPromptsRaise ==
    /\ At("evening_prompts")
    /\ Ends(EOFError)

\* the run's evening data taken back when there is no weight
MainReport_rollback ==
    /\ At("report")
    /\ LET r == EveningReport(db, pc[3]) IN
       /\ ret' = r
       /\ IF r.exit_code = 1
          THEN /\ conn' = "closed"
               /\ db' = clear_evening_data_for_date(db, pc[3])
               /\ Goto("ended",
                       <<[op |-> "get_most_recent_weight", args |-> <<>>],
                         [op |-> "close", args |-> <<>>]>>)
          ELSE /\ UNCHANGED <<db, conn>>
               /\ Goto("cleanup",
                       <<[op |-> "get_most_recent_weight", args |-> <<>>]>>)
    /\ UNCHANGED txn

\* main.py 91-115: without a weight close() and sys.exit(1), else the report
MainReport ==
    /\ At("report")
    /\ LET r == EveningReport(db, pc[3]) IN
       /\ ret' = r
       /\ IF r.exit_code = 1
          THEN /\ conn' = "closed"
               /\ Goto("ended",
                       <<[op |-> "get_most_recent_weight", args |-> <<>>],
                         [op |-> "close", args |-> <<>>]>>)
          ELSE /\ UNCHANGED conn
               /\ Goto("cleanup",
                       <<[op |-> "get_most_recent_weight", args |-> <<>>],
                         [op |-> "get_total_consumed_calories_for_date",
                          args |-> <<pc[3]>>],
                         [op |-> "get_total_workout_calories_for_date",
                          args |-> <<pc[3]>>]>>)
    /\ UNCHANGED <<db, txn>>

\* main.py 120-122
MainCleanup ==
    /\ At("cleanup")
    /\ conn' = "closed"
    /\ Goto("ended", <<[op |-> "close", args |-> <<>>]>>)
    /\ ret' = IF pc[2] = "evening" THEN ret ELSE [exit_code |-> 0, report |-> None]
    /\ UNCHANGED <<db, txn>>

NextMain ==
    \/ MainSetup
    \/ MainProfile
    \/ MainProfileRaises
    \/ MainParse
    \/ MorningClear
    \/ MorningSave
    \/ MorningPromptsRaise
    \/ EveningClear
    \/ EveningSave
    \/ EveningPromptsRaise
    \/ MainReport
    \/ MainCleanup

SpecMain == InitMain /\ [][NextMain]_vars

-----------------------------------------------------------------------------
(* The schema's foreign keys on the manager's connection.  The child tables *)
(* of daily_log declare FOREIGN KEY (log_date) REFERENCES daily_log         *)
(* (log_date) ON DELETE CASCADE.  SQLite enforces foreign keys, and runs    *)
(* their ON DELETE actions, only on a connection on which PRAGMA            *)
(* foreign_keys = ON has been executed.                                     *)

\* connect() is sqlite3.connect(self.db_path) and the row_factory
\* assignment: the pragma keeps its default, which is off
foreign_keys == FALSE

\* DELETE FROM daily_log WHERE log_date = ? on the manager's connection
DeleteFromDailyLog(d, log_date) ==
    IF foreign_keys
    THEN [d EXCEPT
            !.daily_log = { r \in @ : r.log_date # log_date },
            !.weight_log = { r \in @ : r.log_date # log_date },
            !.nutrition_log = { r \in @ : r.log_date # log_date },
            !.workout_log = { r \in @ : r.log_date # log_date }]
    ELSE [d EXCEPT !.daily_log = { r \in @ : r.log_date # log_date }]

DeleteDailyLog ==
    \E D \in Dates :
        Write("DELETE FROM daily_log", <<D>>, DeleteFromDailyLog(db, D), None)

NextSql ==
    \/ DeleteDailyLog
    \/ SaveMorningLog
    \/ LogNutritionEntry
    \/ LogWorkout
    \/ LogWeight

SpecSql == Init /\ [][NextSql]_vars

\* the last call made, and the one before it
last == hist[Len(hist)]
prev == hist[Len(hist) - 1]
Called(op) == hist # <<>> /\ last.op = op


\* the step just taken is a call of op
Step(op) == hist' # hist /\ last'.op = op

\* the rows of a table that belong to a date
RowsFor(table, D) == { r \in table : r.log_date = D }

\* the evening fields of a daily_log row
EveningOf(r) == <<r.review_of_intentions, r.accomplishment, r.mood>>

-----------------------------------------------------------------------------
(* C1 *)

\* C1: a call of ensure_daily_log_exists(D) leaves exactly one daily_log row
\* for D and raises nothing (it returns None); when D already had a row the
\* database is left as it was, and a further call changes nothing
C1_EnsureDailyLog ==
    [][ Step("ensure_daily_log_exists") =>
          LET D == last'.args[1] IN
          /\ Cardinality(RowsFor(db'.daily_log, D)) = 1
          /\ ret' = None
          /\ (RowsFor(db.daily_log, D) # {} => db' = db)
          /\ ensure_daily_log_exists(db', D) = db' ]_vars

\* ensure was called for a date whose row already held saved text
C1_Witness ==
    /\ Called("ensure_daily_log_exists")
    /\ \E r \in db.daily_log :
         r.log_date = last.args[1] /\ r.intentions = Some("t")

-----------------------------------------------------------------------------
(* C2 *)

\* C2: no date ever has more than one weight row, and after log_weight(D, w)
\* the one weight row of D holds w
C2_OneWeightPerDate ==
    /\ \A D \in Dates : Cardinality(RowsFor(db.weight_log, D)) <= 1
    /\ Called("log_weight") =>
         \E r \in db.weight_log :
            /\ RowsFor(db.weight_log, last.args[1]) = {r}
            /\ r.weight_lbs = last.args[2]

\* log_weight(D, w1) was followed by log_weight(D, w2) with another weight
C2_Witness ==
    /\ Len(hist) >= 2
    /\ last.op = "log_weight" /\ prev.op = "log_weight"
    /\ last.args[1] = prev.args[1]
    /\ last.args[2] # prev.args[2]

-----------------------------------------------------------------------------
(* C3 *)

\* the calls made after position i are all nutrition and workout logging
OnlyLoggingAfter(i) ==
    \A j \in (i + 1)..Len(hist) :
        hist[j].op \in {"log_nutrition_entry", "log_workout"}

\* the calls after position i that log to table op for date D
LoggedAfter(i, op, D) ==
    { j \in (i + 1)..Len(hist) : hist[j].op = op /\ hist[j].args[1] = D }

\* once clear_evening_data_for_date(D) was called and only logging calls
\* followed, D holds one row per logging call made for D since, each with
\* what that call logged
NoResidue ==
    \A i \in 1..Len(hist) :
        (hist[i].op = "clear_evening_data_for_date" /\ OnlyLoggingAfter(i)) =>
            LET D  == hist[i].args[1]
                nl == RowsFor(db.nutrition_log, D)
                wl == RowsFor(db.workout_log, D)
                nj == LoggedAfter(i, "log_nutrition_entry", D)
                wj == LoggedAfter(i, "log_workout", D)
            IN  /\ Cardinality(nl) = Cardinality(nj)
                /\ Cardinality(wl) = Cardinality(wj)
                /\ \A r \in nl : \E j \in nj :
                     r.food_id = hist[j].args[2] /\ r.quantity = hist[j].args[3]
                /\ \A j \in nj : \E r \in nl :
                     r.food_id = hist[j].args[2] /\ r.quantity = hist[j].args[3]
                /\ \A r \in wl : \E j \in wj : r.workout_id = hist[j].args[2]
                /\ \A j \in wj : \E r \in wl : r.workout_id = hist[j].args[2]

\* C3: clear_evening_data_for_date(D) leaves D no nutrition row and no
\* workout row and nulls D's review, accomplishment and mood; what is logged
\* for D afterwards is all that D then holds
C3_ClearEvening ==
    [][ /\ Step("clear_evening_data_for_date") =>
            LET D == last'.args[1] IN
            /\ RowsFor(db'.nutrition_log, D) = {}
            /\ RowsFor(db'.workout_log, D) = {}
            /\ \A r \in RowsFor(db'.daily_log, D) :
                 EveningOf(r) = <<NULL, NULL, NULL>>
            /\ \A f \in Ids :
                 LET once  == log_nutrition_entry(db', D, f, DefaultQuantity)
                     twice == log_nutrition_entry(once, D, f, DefaultQuantity)
                 IN  /\ Cardinality(RowsFor(once.nutrition_log, D)) = 1
                     /\ Cardinality(RowsFor(twice.nutrition_log, D)) = 2
                     /\ \A r \in RowsFor(twice.nutrition_log, D) : r.food_id = f
            /\ \A w \in Ids :
                 LET once == log_workout(db', D, w) IN
                 /\ Cardinality(RowsFor(once.workout_log, D)) = 1
                 /\ \A r \in RowsFor(once.workout_log, D) : r.workout_id = w
        /\ NoResidue' ]_vars

\* the evening data of a date that had a review, a nutrition row and a
\* workout row was cleared
C3_Witness ==
    /\ Len(hist) >= 2
    /\ last.op = "clear_evening_data_for_date"
    /\ prev.op = "main" /\ prev.args[1] = "evening"
    /\ prev.args[2] = last.args[1]
    /\ prev.args[4].nutrition # <<>> /\ prev.args[4].did_workout
    /\ RowsFor(db.daily_log, last.args[1]) # {}

-----------------------------------------------------------------------------
(* C4 *)

\* how many items of a nutrition payload name the food
RECURSIVE ItemsNamed(_, _)
ItemsNamed(nutrition, name) ==
    IF nutrition = <<>> THEN 0
    ELSE (IF Head(nutrition).name = name THEN 1 ELSE 0)
         + ItemsNamed(Tail(nutrition), name)

\* the nutrition rows of date D whose food item bears the name
RowsNaming(d, D, name) ==
    { r \in RowsFor(d.nutrition_log, D) :
        \E f \in d.food_items : f.food_id = r.food_id /\ f.name = name }

\* C4: after an evening run of main for a date, whatever the date held
\* before, the date has one nutrition row per food item of the run's payload
\* and one workout row (of the default workout) if did_workout and none
\* otherwise; the same run made again leaves the database as it is
C4_EveningRerun ==
    [][ (Step("main") /\ last'.args[1] = "evening") =>
          LET today  == last'.args[2]
              config == last'.args[3]
              data   == last'.args[4]
              nl     == RowsFor(db'.nutrition_log, today)
              wl     == RowsFor(db'.workout_log, today)
          IN  /\ Cardinality(nl) = Len(data.nutrition)
              /\ \A name \in FoodNames :
                   Cardinality(RowsNaming(db', today, name))
                     = ItemsNamed(data.nutrition, name)
              /\ Cardinality(wl) = (IF data.did_workout THEN 1 ELSE 0)
              /\ \A r \in wl : \E w \in db'.workouts :
                   w.workout_id = r.workout_id
                   /\ w.name = config.default_workout_name
              /\ main(db', "evening", today, config, None, data).db = db'
      ]_vars

\* an evening run with food and a workout was made again for the same date
\* with another payload
C4_Witness ==
    /\ Len(hist) >= 2
    /\ last.op = "main" /\ last.args[1] = "evening"
    /\ prev.op = "main" /\ prev.args[1] = "evening"
    /\ last.args[2] = prev.args[2]
    /\ Len(prev.args[4].nutrition) = 2 /\ prev.args[4].did_workout
    /\ Len(last.args[4].nutrition) = 1 /\ ~last.args[4].did_workout

-----------------------------------------------------------------------------
(* C5 *)

\* the sum the claim names, in halves: over the nutrition rows of D, the
\* calories of the food the row refers to times the row's quantity
ConsumedHalves(d, D) ==
    LET rows == RowsFor(d.nutrition_log, D)
        cal  == [r \in rows |->
                   IF \E f \in d.food_items : f.food_id = r.food_id
                   THEN (CHOOSE f \in d.food_items : f.food_id = r.food_id).calories
                        * r.quantity
                   ELSE 0]
    IN  SumOver(rows, cal)

\* C5 as stated: the total is the sum itself
C5_Original ==
    \A D \in Dates :
        2 * get_total_consumed_calories_for_date(db, D) = ConsumedHalves(db, D)

\* C5, amended: the total is the sum of calories times quantity over the
\* nutrition rows of D cut to a whole number (int() drops the fraction),
\* and 0 when D has no nutrition row; a call returns that number
C5_ConsumedCalories ==
    /\ \A D \in Dates :
         /\ get_total_consumed_calories_for_date(db, D)
              = IntOfHalves(ConsumedHalves(db, D))
         /\ RowsFor(db.nutrition_log, D) = {}
              => get_total_consumed_calories_for_date(db, D) = 0
    /\ Called("get_total_consumed_calories_for_date")
         => ret = IntOfHalves(ConsumedHalves(db, last.args[1]))

\* a date holds two rows of different foods, one with a quantity that is
\* not 1
C5_Witness ==
    \E D \in Dates :
        \E r1, r2 \in RowsFor(db.nutrition_log, D) :
            /\ r1.food_id # r2.food_id
            /\ r1.quantity # DefaultQuantity
            /\ \A r \in {r1, r2} : \E f \in db.food_items : f.food_id = r.food_id
            /\ get_total_consumed_calories_for_date(db, D) > 0

-----------------------------------------------------------------------------
(* C6 *)

\* the sum the claim names: over the workout_log rows of D, the calories of
\* the exercise that bears the name of the row's workout, nothing for a row
\* whose workout has no such exercise
WorkoutCalories(d, D) ==
    LET rows == RowsFor(d.workout_log, D)
        NameOf(r) == { w.name : w \in { x \in d.workouts : x.workout_id = r.workout_id } }
        Burned(r) == { e \in d.exercises : e.name \in NameOf(r) }
        cal  == [r \in rows |->
                   IF Burned(r) = {} THEN 0
                   ELSE (CHOOSE e \in Burned(r) : TRUE).calories_burned]
    IN  SumOver(rows, cal)

\* C6: the workout total of D is the sum over D's workout_log rows, a row
\* per logging, of the calories of the exercise named like the row's
\* workout; workout_components plays no part, and the total is 0 when no
\* row matches; a call returns that number
C6_WorkoutCalories ==
    /\ \A D \in Dates :
         get_total_workout_calories_for_date(db, D) = WorkoutCalories(db, D)
    /\ \A D \in Dates :
         get_total_workout_calories_for_date(
             [db EXCEPT !.workout_components =
                 { [workout_id |-> w.workout_id, exercise_id |-> e.exercise_id] :
                     w \in db.workouts, e \in db.exercises }], D)
           = WorkoutCalories(db, D)
    /\ Called("get_total_workout_calories_for_date")
         => ret = WorkoutCalories(db, last.args[1])

\* a workout with an exercise of its name was logged twice on one date
C6_Witness ==
    \E D \in Dates :
        \E r1, r2 \in RowsFor(db.workout_log, D) :
            /\ r1 # r2 /\ r1.workout_id = r2.workout_id
            /\ get_total_workout_calories_for_date(db, D) = 500

-----------------------------------------------------------------------------
(* C7 *)

\* calendar order of two dates <<year, month, day>>
Before(a, b) ==
    \/ a[1] < b[1]
    \/ a[1] = b[1] /\ a[2] < b[2]
    \/ a[1] = b[1] /\ a[2] = b[2] /\ a[3] < b[3]

\* C7: get_most_recent_weight() is None exactly when there is no weight
\* row; otherwise it is the weight and date of the row whose date no other
\* row's date follows in the calendar, whatever the order of logging
C7_MostRecentWeight ==
    LET res == get_most_recent_weight(db) IN
    /\ (res = None) <=> (db.weight_log = {})
    /\ res # None =>
         /\ \E r \in db.weight_log :
              r.log_date = res[1].log_date /\ r.weight_lbs = res[1].weight_lbs
         /\ \A o \in db.weight_log :
              ~Before(fromisoformat(res[1].log_date), fromisoformat(o.log_date))
    /\ Called("get_most_recent_weight") => ret = res

\* a weight was logged for the later date, then one for the earlier date
C7_Witness ==
    /\ Len(hist) >= 2
    /\ last.op = "log_weight" /\ prev.op = "log_weight"
    /\ Before(fromisoformat(last.args[1]), fromisoformat(prev.args[1]))
    /\ get_most_recent_weight(db) =
         Some([weight_lbs |-> prev.args[2], log_date |-> prev.args[1]])

-----------------------------------------------------------------------------
(* C8 *)

\* the number of days from 0000-03-01 to a date of the proleptic Gregorian
\* calendar
DayNumber(dt) ==
    LET y == IF dt[2] <= 2 THEN dt[1] - 1 ELSE dt[1]
        m == IF dt[2] <= 2 THEN dt[2] + 9 ELSE dt[2] - 3
    IN  365 * y + y \div 4 - y \div 100 + y \div 400
        + (153 * m + 2) \div 5 + dt[3] - 1

\* the daily_log rows of the calendar day before D
RowsOfDayBefore(d, D) ==
    { r \in d.daily_log :
        DayNumber(fromisoformat(r.log_date)) = DayNumber(fromisoformat(D)) - 1 }

\* what the claim says of get_yesterdays_intentions(D)
YesterdaysIntentions(d, D) ==
    LET rows == RowsOfDayBefore(d, D) IN
    IF rows = {} THEN None
    ELSE LET r == CHOOSE x \in rows : TRUE IN
         IF r.intentions = NULL \/ r.intentions = Some("") THEN None
         ELSE r.intentions

\* days that follow one another across the end of a month, of a February
\* and of a year: <<a day, the day before it>>
ConsecutiveDays ==
    { << <<2024, 1, 1>>, <<2023, 12, 31>> >>, << <<2024, 3, 1>>, <<2024, 2, 29>> >>,
      << <<2023, 3, 1>>, <<2023, 2, 28>> >>,  << <<2100, 3, 1>>, <<2100, 2, 28>> >>,
      << <<2000, 3, 1>>, <<2000, 2, 29>> >>,  << <<2024, 5, 1>>, <<2024, 4, 30>> >>,
      << <<2024, 8, 1>>, <<2024, 7, 31>> >>,  << <<2024, 8, 31>>, <<2024, 8, 30>> >> }

\* C8: get_yesterdays_intentions(D) is the intentions stored in the row of
\* the calendar day before D, whatever D's own row holds, and None when that
\* day has no row or its intentions are NULL or empty; a call returns that
C8_YesterdaysIntentions ==
    /\ \A D \in Dates :
         get_yesterdays_intentions(db, D) = YesterdaysIntentions(db, D)
    /\ hist = <<>> =>
         \A p \in ConsecutiveDays :
            get_yesterdays_intentions(
                save_morning_log(db, isoformat(p[2]), "", "t"), isoformat(p[1]))
              = Some("t")
    /\ Called("get_yesterdays_intentions")
         => ret = YesterdaysIntentions(db, last.args[1])

\* the intentions of the leap day were read on the first of March
C8_Witness ==
    /\ Called("get_yesterdays_intentions")
    /\ last.args[1] = isoformat(<<2024, 3, 1>>)
    /\ ret = Some("t")
    /\ \E r \in db.daily_log :
         r.log_date = isoformat(<<2024, 2, 29>>) /\ r.intentions = Some("t")

-----------------------------------------------------------------------------
(* C9 *)

\* the row of D, or the row ensure would create when D has none
RowOrFresh(d, D) ==
    IF RowsFor(d.daily_log, D) = {}
    THEN [log_date |-> D, dreams |-> NULL, intentions |-> NULL,
          review_of_intentions |-> NULL, accomplishment |-> NULL,
          mood |-> NULL]
    ELSE CHOOSE r \in RowsFor(d.daily_log, D) : TRUE

\* everything but the daily_log row of D is as it was
OnlyRowChanged(D) ==
    /\ [db' EXCEPT !.daily_log = {}] = [db EXCEPT !.daily_log = {}]
    /\ db'.daily_log \ RowsFor(db'.daily_log, D)
         = db.daily_log \ RowsFor(db.daily_log, D)

\* C9: save_morning_log(D, dreams, intentions) leaves D one row that holds
\* the given dreams and intentions and the review, accomplishment and mood
\* it had; save_evening_log(D, review, accomplishment, mood) leaves D one
\* row that holds the three given fields and the dreams and intentions it
\* had; neither changes anything else
C9_SaveFrames ==
    [][ /\ Step("save_morning_log") =>
            LET D   == last'.args[1]
                old == RowOrFresh(db, D)
            IN  /\ RowsFor(db'.daily_log, D) =
                     { [old EXCEPT !.dreams = Some(last'.args[2]),
                                   !.intentions = Some(last'.args[3])] }
                /\ OnlyRowChanged(D)
        /\ Step("save_evening_log") =>
            LET D   == last'.args[1]
                old == RowOrFresh(db, D)
            IN  /\ RowsFor(db'.daily_log, D) =
                     { [old EXCEPT !.review_of_intentions = Some(last'.args[2]),
                                   !.accomplishment = Some(last'.args[3]),
                                   !.mood = Some(last'.args[4])] }
                /\ OnlyRowChanged(D) ]_vars

\* a morning was saved for a date whose evening was already saved, or an
\* evening for a date whose morning was already saved
C9_Witness ==
    /\ Len(hist) >= 2
    /\ \/ last.op = "save_morning_log" /\ prev.op = "save_evening_log"
       \/ last.op = "save_evening_log" /\ prev.op = "save_morning_log"
    /\ last.args[1] = prev.args[1]
    /\ \E r \in RowsFor(db.daily_log, last.args[1]) :
         Truthy(r.intentions) /\ Truthy(r.mood)

-----------------------------------------------------------------------------
(* C10 *)

\* C10: add_food_item(name, calories) adds a row with that name and those
\* calories only when no food item bears the name, and returns its
\* identifier; when one does, the food items and their calories stay as they
\* are and the identifier of the existing item is returned
C10_AddFoodItem ==
    [][ Step("add_food_item") =>
          LET name     == last'.args[1]
              calories == last'.args[2]
              had      == { f \in db.food_items : f.name = name }
          IN  /\ had = {} =>
                   \E f \in db'.food_items :
                      /\ f \notin db.food_items
                      /\ db'.food_items = db.food_items \cup {f}
                      /\ f.name = name /\ f.calories = calories
                      /\ ret' = f.food_id
              /\ had # {} =>
                   /\ db'.food_items = db.food_items
                   /\ \E f \in had : ret' = f.food_id
              /\ [db' EXCEPT !.food_items = {}] = [db EXCEPT !.food_items = {}]
      ]_vars

\* add_food_item was called for an existing name with other calories
C10_Witness ==
    /\ Called("add_food_item")
    /\ \E f \in db.food_items :
         f.name = last.args[1] /\ f.calories # last.args[2] /\ ret = f.food_id

-----------------------------------------------------------------------------
(* C11 *)

\* no two rows of the table bear one name or one identifier
NamedOnce(table, idOf) ==
    \A r, o \in table :
        (r.name = o.name \/ idOf[r] = idOf[o]) => r = o

\* the identifier the table holds for a name, None when it holds none
IdOfName(table, idOf, name) ==
    IF \E r \in table : r.name = name
    THEN Some(idOf[CHOOSE r \in table : r.name = name])
    ELSE None

FoodId(d) == [r \in d.food_items |-> r.food_id]
ExerciseId(d) == [r \in d.exercises |-> r.exercise_id]
WorkoutId(d) == [r \in d.workouts |-> r.workout_id]

\* a step keeps the identifier of every name the table already held, and a
\* get-or-create call for a name returns the identifier the table then holds
\* for it
IdsKept ==
    /\ \A name \in FoodNames :
         IdOfName(db.food_items, FoodId(db), name) # None =>
           IdOfName(db'.food_items, FoodId(db'), name)
             = IdOfName(db.food_items, FoodId(db), name)
    /\ \A name \in WorkoutNames :
         /\ IdOfName(db.exercises, ExerciseId(db), name) # None =>
              IdOfName(db'.exercises, ExerciseId(db'), name)
                = IdOfName(db.exercises, ExerciseId(db), name)
         /\ IdOfName(db.workouts, WorkoutId(db), name) # None =>
              IdOfName(db'.workouts, WorkoutId(db'), name)
                = IdOfName(db.workouts, WorkoutId(db), name)
    /\ Step("add_food_item") =>
         Some(ret') = IdOfName(db'.food_items, FoodId(db'), last'.args[1])
    /\ Step("add_or_get_exercise") =>
         Some(ret') = IdOfName(db'.exercises, ExerciseId(db'), last'.args[1])
    /\ Step("add_or_get_workout") =>
         Some(ret') = IdOfName(db'.workouts, WorkoutId(db'), last'.args[1])

\* C11: in every state no two food items, no two exercises and no two
\* workouts bear one name or one identifier; no step changes the identifier
\* of a name, and add_food_item, add_or_get_exercise and add_or_get_workout
\* return the identifier of the name they are called with
C11_GetOrCreate ==
    /\ [](/\ NamedOnce(db.food_items, FoodId(db))
          /\ NamedOnce(db.exercises, ExerciseId(db))
          /\ NamedOnce(db.workouts, WorkoutId(db)))
    /\ [][IdsKept]_vars

\* after an evening run that stored two foods and the default workout, a
\* get-or-create call for the second name returned the identifier the run
\* gave it
C11_Witness ==
    /\ Len(hist) >= 2
    /\ prev.op = "main" /\ last.op # "main"
    /\ prev.args[1] = "evening"
    /\ \/ /\ last.op = "add_food_item" /\ last.args[1] = "Salad" /\ ret = 2
          /\ Cardinality(db.food_items) = 2
       \/ /\ last.op = "add_or_get_workout" /\ last.args[1] = "Run" /\ ret = 1
          /\ Cardinality(db.workouts) = 1

-----------------------------------------------------------------------------
(* C12 *)

\* the table gained one row, new to it, and lost none
OneRowAdded(old, new, row) ==
    /\ row \notin old
    /\ new = old \cup {row}
    /\ Cardinality(new) = Cardinality(old) + 1

\* C12: log_nutrition_entry(D, food, q) adds one nutrition row, new to the
\* table, that holds D, food and q, and keeps every row there was;
\* log_workout(D, w) does the same to the workout rows; the rows main logs
\* without passing a quantity hold the quantity 1
C12_LogAppends ==
    [][ /\ Step("log_nutrition_entry") =>
            /\ \E row \in db'.nutrition_log :
                 /\ OneRowAdded(db.nutrition_log, db'.nutrition_log, row)
                 /\ row.log_date = last'.args[1]
                 /\ row.food_id = last'.args[2]
                 /\ row.quantity = last'.args[3]
            /\ db'.workout_log = db.workout_log
        /\ Step("log_workout") =>
            /\ \E row \in db'.workout_log :
                 /\ OneRowAdded(db.workout_log, db'.workout_log, row)
                 /\ row.log_date = last'.args[1]
                 /\ row.workout_id = last'.args[2]
            /\ db'.nutrition_log = db.nutrition_log
        /\ (Step("main") /\ last'.args[1] = "evening") =>
            /\ DefaultQuantity = 2 * 1
            /\ \A r \in RowsFor(db'.nutrition_log, last'.args[2]) :
                 r.quantity = DefaultQuantity ]_vars

\* the same food was logged twice for one date, or the same workout, and
\* the date holds two rows of it
C12_Witness ==
    /\ Len(hist) >= 2
    /\ last.op = prev.op
    /\ last.op \in {"log_nutrition_entry", "log_workout"}
    /\ last.args[1] = prev.args[1] /\ last.args[2] = prev.args[2]
    /\ \/ /\ last.op = "log_nutrition_entry"
          /\ Cardinality({ r \in RowsFor(db.nutrition_log, last.args[1]) :
                             r.food_id = last.args[2] }) = 2
       \/ /\ last.op = "log_workout"
          /\ Cardinality({ r \in RowsFor(db.workout_log, last.args[1]) :
                             r.workout_id = last.args[2] }) = 2

-----------------------------------------------------------------------------
(* C13 *)

\* C13: every weight row, nutrition row and workout row is of a date that
\* has a daily_log row, and no date has two daily_log rows
C13_DayRowExists ==
    /\ \A r \in db.weight_log \cup db.nutrition_log \cup db.workout_log :
         RowsFor(db.daily_log, r.log_date) # {}
    /\ \A r, o \in db.daily_log : r.log_date = o.log_date => r = o

\* the first call ever made logged a weight, a food or a workout for a date,
\* and a second such call for that date found the day row in place
C13_Witness ==
    /\ Len(hist) >= 2
    /\ prev.op \in {"log_weight", "log_nutrition_entry", "log_workout"}
    /\ last.op \in {"log_weight", "log_nutrition_entry", "log_workout"}
    /\ last.op # prev.op
    /\ last.args[1] = prev.args[1]
    /\ Cardinality(RowsFor(db.daily_log, last.args[1])) = 1
    /\ Cardinality(db.weight_log \cup db.nutrition_log \cup db.workout_log) = 2

-----------------------------------------------------------------------------
(* C14 *)

\* the positions of the calls that save a profile
ProfileSaves == { i \in 1..Len(hist) : hist[i].op = "create_or_update_user_profile" }

\* C14: the user_profile table never holds more than one row;
\* get_user_profile() is None as long as no profile was saved, by a call or
\* by a run of main, and once create_or_update_user_profile was called it is
\* the profile of the last such call; a call returns that
C14_SingleProfile ==
    /\ Cardinality(db.user_profile) <= 1
    /\ (\A i \in 1..Len(hist) :
            hist[i].op \notin {"create_or_update_user_profile", "main"})
         => get_user_profile(db) = None
    /\ ProfileSaves # {} =>
         get_user_profile(db) = Some(hist[SetMax(ProfileSaves)].args[1])
    /\ Called("get_user_profile") => ret = get_user_profile(db)

\* a profile was saved over another one
C14_Witness ==
    /\ Len(hist) >= 2
    /\ last.op = "create_or_update_user_profile"
    /\ prev.op = "create_or_update_user_profile"
    /\ last.args[1] # prev.args[1]
    /\ get_user_profile(db) = Some(last.args[1])

-----------------------------------------------------------------------------
(* C15 *)

\* every table of the schema is there and holds the rows it held
RowsUnchanged ==
    /\ DOMAIN db' = DOMAIN EmptyDb
    /\ \A t \in DOMAIN db : db'[t] = db[t]

\* the rows a database file holds
AllRows(d) == UNION { d[t] : t \in DOMAIN d }

\* C15: create_tables() on an open connection, and setup() on any manager,
\* return without an error and leave every table with the rows it had, as
\* does the setup() every run of main starts with; done again, they change
\* nothing
C15_CreateTablesIdempotent ==
    [][ /\ ((Step("create_tables") /\ conn = "open") \/ Step("setup")) =>
            /\ ret' = None
            /\ RowsUnchanged
            /\ create_tables("open", db') = [db |-> db', ret |-> None]
            /\ setup(setup(db').db) = [db |-> db', ret |-> None]
        /\ Step("main") =>
            /\ DOMAIN setup(db).db = DOMAIN EmptyDb
            /\ \A t \in DOMAIN db : setup(db).db[t] = db[t]
            /\ main(db, last'.args[1], last'.args[2], last'.args[3],
                    CHOOSE q \in Profiles : q.sex_at_birth = "Male",
                    last'.args[4]).db = db' ]_vars

\* the tables were created again on a database that held rows
C15_Witness ==
    /\ Len(hist) >= 2
    /\ last.op \in {"create_tables", "setup"}
    /\ conn = "open"
    /\ ret = None
    /\ db.weight_log # {} /\ db.daily_log # {}
    /\ \E i \in 1..(Len(hist) - 1) : hist[i].op \in {"create_tables", "setup", "main"}

-----------------------------------------------------------------------------
(* C16 *)

\* C16: create_tables() on a manager that was never connected raises the
\* not-connected exception and leaves the database file and the manager as
\* they were
C16_NotConnected ==
    [][ (Step("create_tables") /\ conn = "none") =>
          /\ ret' = NotConnected
          /\ db' = db
          /\ conn' = "none" ]_vars

\* create_tables() was called on a manager that had not been connected, on a
\* file that a run of main had filled
C16_Witness ==
    /\ Called("create_tables")
    /\ conn = "none"
    /\ ret = NotConnected
    /\ db # NoTables /\ AllRows(db) # {}

-----------------------------------------------------------------------------
(* C17 *)

\* C17: an evening run of main on a database without any weight row ends
\* with exit status 1 and shows no summary; a run that shows a summary ends
\* with status 0 and shows the weight and date of a stored weight row
C17_MissingWeight ==
    (Called("main") /\ last.args[1] = "evening") =>
        /\ db.weight_log = {} => (ret.exit_code = 1 /\ ret.report = None)
        /\ db.weight_log # {} => (ret.exit_code = 0 /\ ret.report # None)
        /\ ret.report # None =>
             \E r \in db.weight_log :
                /\ r.weight_lbs = ret.report[1].weight_lbs
                /\ r.log_date = ret.report[1].weight_date

\* an evening with food and a workout was run on a database in which no
\* weight had ever been logged
C17_Witness ==
    /\ Called("main") /\ last.args[1] = "evening"
    /\ last.args[4].nutrition # <<>> /\ last.args[4].did_workout
    /\ db.weight_log = {}
    /\ ret.exit_code = 1

-----------------------------------------------------------------------------
(* C18 *)

Abs(x) == IF x < 0 THEN -x ELSE x

\* n is the whole number nearest to the energy x, the even one of the two
\* when x lies half way
NearestEven(x, n) ==
    /\ 2 * Abs(x - Kcal(n)) <= Kcal(1)
    /\ 2 * Abs(x - Kcal(n)) = Kcal(1) => n % 2 = 0

\* the summary presents the deficit n
Presents(summary, n) ==
    IF n > 0
    THEN summary.result = "deficit" /\ summary.calories = n
    ELSE summary.result = "surplus" /\ summary.calories = -n

\* C18: the deficit of the report is tdee - consumed rounded to a whole
\* number; the summary says "deficit" of that number exactly when it is
\* above zero, and "surplus" of its negation when it is zero or below, so a
\* balance of zero is a surplus of 0
C18_DeficitOrSurplus ==
    /\ Called("round") => NearestEven(last.args[1], ret)
    /\ Called("display_calorie_summary") =>
         /\ Presents(ret, last.args[3])
         /\ (ret.result = "deficit") <=> (last.args[3] > 0)
         /\ last.args[3] = 0 => (ret.result = "surplus" /\ ret.calories = 0)
    /\ Called("DailyReport") =>
         LET tdee == calculate_tdee(
                        calculate_bmr(last.args[1], last.args[2], last.args[5]),
                        last.args[4])
         IN  \E n \in -3000..3000 :
                /\ NearestEven(tdee - Kcal(last.args[3]), n)
                /\ Presents(ret, n)

\* a report was shown for a consumption within half a kcal of the TDEE: a
\* surplus of 0
C18_Witness ==
    /\ Called("DailyReport")
    /\ last.args[3] = 2132
    /\ ret.tdee = 2132
    /\ ret.result = "surplus" /\ ret.calories = 0

-----------------------------------------------------------------------------
(* C19 *)

\* the Mifflin-St Jeor value with the given constant term, in energy units:
\* 10 * 0.453592 kcal a pound, 6.25 kcal a cm, -5 kcal a year
Formula(p, weight_lbs, today, offset) ==
    283495 * weight_lbs + 390625 * p.height_cm
      - 312500 * calculate_age(p.birth_date, today) + 62500 * offset

\* C19 as stated: -161 for "Female" and +5 for every other value
C19_Original ==
    Called("calculate_bmr") =>
        ret = Formula(last.args[1], last.args[2], last.args[3],
                      IF last.args[1].sex_at_birth = "Female" THEN -161 ELSE 5)

\* C19, amended: calculate_bmr returns 10*weightKg + 6.25*heightCm - 5*age
\* + 5 when the sex at birth is "male" in any letter case, the same with
\* -161 when it is "female" in any letter case, and the male value, without
\* an error, for every other string
C19_Bmr ==
    Called("calculate_bmr") =>
        ret = Formula(last.args[1], last.args[2], last.args[3],
                      IF last.args[1].sex_at_birth \in {"Female", "female", "FEMALE"}
                      THEN -161 ELSE 5)

\* the BMR of a 180 cm, 34 year old profile whose sex at birth was typed
\* "FEMALE" was computed for 135 lbs: 1406.3492
C19_Witness ==
    /\ Called("calculate_bmr")
    /\ last.args[1].sex_at_birth = "FEMALE"
    /\ last.args[1].height_cm = 180 /\ last.args[2] = 135
    /\ calculate_age(last.args[1].birth_date, last.args[3]) = 34
    /\ ret = Kcal(1406) + 21825

-----------------------------------------------------------------------------
(* C20 *)

\* C20: calculate_tdee(bmr, activity) is bmr * 1.2 + activity: 1.2 times the
\* BMR when the activity is 0, and one kcal more for each activity calorie
C20_Tdee ==
    Called("calculate_tdee") =>
        LET bmr == last.args[1]
            activity == last.args[2]
        IN  /\ 5 * (ret - Kcal(activity)) = 6 * bmr
            /\ activity = 0 => 5 * ret = 6 * bmr
            /\ calculate_tdee(bmr, activity + 1) = ret + Kcal(1)
            /\ ret - calculate_tdee(bmr, 0) = Kcal(activity)

\* the TDEE of a BMR of 1776.47 with 350 activity calories was computed:
\* 2481.764
C20_Witness ==
    /\ Called("calculate_tdee")
    /\ last.args = <<Kcal(1776) + 29375, 350>>
    /\ ret = Kcal(2481) + 47750

-----------------------------------------------------------------------------
(* C21 *)

\* (month, day) of a comes before (month, day) of b in the year
EarlierInYear(a, b) == a[2] < b[2] \/ (a[2] = b[2] /\ a[3] < b[3])

\* C21: the age is today.year - birth.year, less 1 exactly when today's
\* (month, day) comes before the birth date's; from one day to the next it
\* grows by one when the day reaches the birth date's (month, day) and the
\* day before had not, and stays as it is otherwise; it is never smaller on
\* a later evaluation date
C21_Age ==
    Called("calculate_age") =>
        LET b     == last.args[1]
            birth == fromisoformat(b)
            today == last.args[2]
            eve   == MinusOneDay(today)
            reached == /\ ~EarlierInYear(today, birth)
                       /\ (EarlierInYear(eve, birth) \/ eve[1] < today[1])
        IN  /\ ret = today[1] - birth[1]
                       - (IF EarlierInYear(today, birth) THEN 1 ELSE 0)
            /\ ret - calculate_age(b, eve) = (IF reached THEN 1 ELSE 0)
            /\ \A later \in EvalDates :
                 Before(today, later) => ret <= calculate_age(b, later)

\* the age of a person born on 1990-01-15 was computed on the birthday in
\* 2024, and that of a person born on a 29th of February on the first of
\* March of a common year
C21_Witness ==
    /\ Called("calculate_age")
    /\ \/ /\ last.args = <<isoformat(<<1990, 1, 15>>), <<2024, 1, 15>>>>
          /\ ret = 34
          /\ calculate_age(last.args[1], <<2024, 1, 14>>) = 33
       \/ /\ last.args = <<isoformat(<<2000, 2, 29>>), <<2025, 3, 1>>>>
          /\ ret = 25
          /\ calculate_age(last.args[1], <<2025, 2, 28>>) = 24

-----------------------------------------------------------------------------
(* C22, C23, C24 *)

\* what a method makes of the tables d when it runs from call to return
Effect(op, args, d) ==
    CASE op = "ensure_daily_log_exists" -> ensure_daily_log_exists(d, args[1])
      [] op = "save_morning_log" -> save_morning_log(d, args[1], args[2], args[3])
      [] op = "save_evening_log" ->
           save_evening_log(d, args[1], args[2], args[3], args[4])
      [] op = "clear_morning_data_for_date" -> clear_morning_data_for_date(d, args[1])
      [] op = "clear_evening_data_for_date" -> clear_evening_data_for_date(d, args[1])
      [] op = "add_food_item" -> add_food_item(d, args[1], args[2]).db
      [] op = "log_nutrition_entry" -> log_nutrition_entry(d, args[1], args[2], args[3])
      [] op = "add_or_get_workout" -> add_or_get_workout(d, args[1]).db
      [] op = "add_or_get_exercise" -> add_or_get_exercise(d, args[1], args[2]).db
      [] op = "log_workout" -> log_workout(d, args[1], args[2])
      [] op = "log_weight" -> log_weight(d, args[1], args[2])
      [] op = "create_or_update_user_profile" ->
           create_or_update_user_profile(d, args[1])

\* the method that is under way, or that the crash just recorded cut short
Cut == IF pc # Idle THEN pc
       ELSE IF Called("crash") THEN last.args[1] ELSE Idle

\* the database file holds what it held when the method was called, or
\* what the whole method makes of that
AllOrNothing ==
    db \in {Cut[5], Effect(Cut[1], Cut[2], Cut[5])}

\* C22: at every point of clear_evening_data_for_date(D), and after a crash
\* at that point, the database file holds either the state before the call
\* or the state with the nutrition rows of D, the workout rows of D and the
\* three evening fields of D all cleared
C22_ClearEveningAtomic ==
    (Cut # Idle /\ Cut[1] = "clear_evening_data_for_date") => AllOrNothing

\* the process died after the two DELETEs of a clear of a date that had a
\* nutrition row, a workout row and a mood, and all three are still in the
\* file
C22_Witness ==
    /\ Called("crash")
    /\ Cut # Idle
    /\ Cut[1] = "clear_evening_data_for_date"
    /\ Cut[4] >= 3
    /\ \E r \in db.nutrition_log : r.log_date = Cut[2][1]
    /\ \E r \in db.workout_log : r.log_date = Cut[2][1]
    /\ \E r \in db.daily_log : r.log_date = Cut[2][1] /\ r.mood # NULL
    /\ db = Cut[5]

\* C23: at every point of save_morning_log, save_evening_log,
\* log_nutrition_entry, log_workout and log_weight, and after a crash at
\* that point, the database file holds either the state before the call or
\* the state after the whole call
C23_WritesAtomic ==
    (Cut # Idle /\ Cut[1] \in {"save_morning_log", "save_evening_log",
                               "log_nutrition_entry", "log_workout",
                               "log_weight"}) => AllOrNothing

\* C24: when a write method returns, the connection has no open
\* transaction and the database file holds everything the method did, and
\* between two calls there is nothing that close() or a crash would discard
C24_CommittedOnReturn ==
    /\ (pc # Idle /\ ~Remaining) =>
           /\ txn = None
           /\ db = Effect(Method, Arguments, pc[5])
    /\ pc = Idle => txn = None

\* log_weight returned and the process died at once: the day's row and the
\* weight are in the file
C24_Witness ==
    /\ Len(hist) = 2
    /\ prev.op = "log_weight"
    /\ last.op \in {"crash", "close"}
    /\ last.op = "crash" => last.args[1] = Idle
    /\ \E r \in db.weight_log :
         r.log_date = prev.args[1] /\ r.weight_lbs = prev.args[2]
    /\ \E r \in db.daily_log : r.log_date = prev.args[1]

-----------------------------------------------------------------------------
(* C25 *)

\* C25: when a run of main has ended, on whichever path, the connection
\* that setup() opened has been closed, and close() is the last call that
\* was made on the manager
C25_Released ==
    At("ended") =>
        /\ conn = "closed"
        /\ \A i \in 1..Len(hist) : hist[i].op = "close" <=> i = Len(hist)

-----------------------------------------------------------------------------
(* C28, C29 *)

\* an evening run has gone through to its report
EveningCompleted ==
    /\ At("ended")
    /\ pc[2] = "evening"
    /\ pc[4] # None
    /\ ret.exit_code = 0

\* the calorie values typed for the items of a nutrition payload, added up
RECURSIVE Entered(_)
Entered(nutrition) ==
    IF nutrition = <<>> THEN 0
    ELSE Head(nutrition).calories + Entered(Tail(nutrition))

Started == setup(pc[5]).db

\* the calories that count for item i of a payload: those stored under the
\* item's name before the run if there were any, else those entered with
\* the first item of the payload that has the name
Counted(nutrition, i) ==
    LET stored == { r \in Started.food_items : r.name = nutrition[i].name }
        first  == CHOOSE j \in 1..i :
                    /\ nutrition[j].name = nutrition[i].name
                    /\ \A k \in 1..(j - 1) : nutrition[k].name # nutrition[i].name
    IN  IF stored # {} THEN (CHOOSE r \in stored : TRUE).calories
        ELSE nutrition[first].calories

RECURSIVE CountedUpTo(_, _)
CountedUpTo(nutrition, n) ==
    IF n = 0 THEN 0 ELSE CountedUpTo(nutrition, n - 1) + Counted(nutrition, n)

ReportedWith(activity) ==
    /\ get_total_workout_calories_for_date(db, pc[3]) = activity
    /\ ret.report[1] =
         DailyReport(get_user_profile(db)[1], get_most_recent_weight(db)[1],
                     get_total_consumed_calories_for_date(db, pc[3]),
                     activity, fromisoformat(pc[3]))

\* C29 as stated: after an evening run that reached its report, the
\* activity calories that enter the TDEE of the report are the configured
\* default-workout calories when did_workout is true and 0 when it is
\* false, whatever the database held before the run
C29_ActivityIsConfigured ==
    EveningCompleted =>
        ReportedWith(IF pc[4].did_workout
                     THEN Config.default_workout_calories ELSE 0)

\* C29: after an evening run that reached its report, the activity
\* calories that enter the TDEE of the report are 0 when did_workout is
\* false, and when it is true the calories stored for the exercise that
\* has the default workout's name: the configured value when the database
\* held no such exercise before the run, the value it held otherwise
C29_ActivityIsStored ==
    EveningCompleted =>
        LET held == { e \in Started.exercises :
                        e.name = Config.default_workout_name }
        IN  ReportedWith(
                IF ~pc[4].did_workout THEN 0
                ELSE IF held = {} THEN Config.default_workout_calories
                ELSE (CHOOSE e \in held : TRUE).calories_burned)

\* an evening run with the workout on a file that held the exercise Run
\* with 300 calories reports a TDEE with 300 activity calories, and one
\* on a file without the exercise a TDEE with the configured 250
C29_Witness ==
    /\ EveningCompleted
    /\ pc[4].did_workout
    /\ \/ /\ \E e \in Started.exercises : e.name = "Run" /\ e.calories_burned = 300
          /\ get_total_workout_calories_for_date(db, pc[3]) = 300
       \/ /\ Started.exercises = {}
          /\ get_total_workout_calories_for_date(db, pc[3]) = 250

-----------------------------------------------------------------------------
(* C26 *)

\* the operations that write the data of a day
DayLevel ==
    {"ensure_daily_log_exists", "save_morning_log", "save_evening_log",
     "clear_morning_data_for_date", "clear_evening_data_for_date",
     "log_nutrition_entry", "log_workout", "log_weight"}

\* C26: a save, a clear or a log of a day leaves food_items, exercises and
\* workouts exactly as they were, and no step of any kind removes or
\* changes a row of these tables: every row they hold, with its calories,
\* is still there after the step
C26_ReferenceDataKept ==
    [][ /\ db.food_items \subseteq db'.food_items
        /\ db.exercises \subseteq db'.exercises
        /\ db.workouts \subseteq db'.workouts
        /\ (hist' # hist /\ last'.op \in DayLevel) =>
              /\ db'.food_items = db.food_items
              /\ db'.exercises = db.exercises
              /\ db'.workouts = db.workouts ]_vars

\* the evening data of a day whose run stored two foods and the default
\* workout was cleared: the rows of the day are gone, the two food items,
\* the exercise and the workout are still there
C26_Witness ==
    /\ Len(hist) = 2
    /\ prev.op = "main"
    /\ Called("clear_evening_data_for_date")
    /\ prev.args[2] = last.args[1]
    /\ RowsFor(db.nutrition_log, last.args[1]) = {}
    /\ Cardinality(db.food_items) = 2
    /\ Cardinality(db.exercises) = 1
    /\ Cardinality(db.workouts) = 1

-----------------------------------------------------------------------------
(* C27 *)

\* C27: once the daily_log row of a date has been deleted, no weight,
\* nutrition or workout row of that date is left
C27_Cascade ==
    Called("DELETE FROM daily_log") =>
        /\ RowsFor(db.daily_log, last.args[1]) = {}
        /\ RowsFor(db.weight_log, last.args[1]) = {}
        /\ RowsFor(db.nutrition_log, last.args[1]) = {}
        /\ RowsFor(db.workout_log, last.args[1]) = {}

-----------------------------------------------------------------------------
(* C30 *)

\* C30: every nutrition row names a food item that exists and every
\* workout row a workout that exists
C30_ReferentialIntegrity ==
    /\ \A n \in db.nutrition_log : \E f \in db.food_items : f.food_id = n.food_id
    /\ \A l \in db.workout_log : \E w \in db.workouts : w.workout_id = l.workout_id

-----------------------------------------------------------------------------
(* C31 *)

\* the rows of the four day-keyed tables that belong to dates other than D
OtherDates(d, D) ==
    << { r \in d.daily_log : r.log_date # D },
       { r \in d.weight_log : r.log_date # D },
       { r \in d.nutrition_log : r.log_date # D },
       { r \in d.workout_log : r.log_date # D } >>

\* C31: an ensure, a save, a clear or a log for a date D leaves the
\* daily_log row, the weight row, the nutrition rows and the workout rows
\* of every other date as they were
C31_OtherDatesKept ==
    [][ (hist' # hist /\ last'.op \in DayLevel) =>
            OtherDates(db', last'.args[1]) = OtherDates(db, last'.args[1]) ]_vars

\* a weight was logged for one date and then one for another date: both
\* rows are in the table
C31_Witness ==
    /\ Len(hist) = 2
    /\ prev.op = "log_weight"
    /\ last.op = "log_weight"
    /\ prev.args[1] # last.args[1]
    /\ \E r \in db.weight_log :
         r.log_date = prev.args[1] /\ r.weight_lbs = prev.args[2]
    /\ \E r \in db.weight_log : r.log_date = last.args[1]
    /\ \E r \in db.daily_log : r.log_date = prev.args[1]

-----------------------------------------------------------------------------
(* C32 *)

\* the morning fields of a daily_log row
MorningOf(r) == <<r.dreams, r.intentions>>

\* what clear_morning_data_for_date(D) is to leave alone: the evening
\* fields of D, and the weight, nutrition and workout rows of D
EveningHalf(d, D) ==
    << { EveningOf(r) : r \in RowsFor(d.daily_log, D) },
       RowsFor(d.weight_log, D), RowsFor(d.nutrition_log, D),
       RowsFor(d.workout_log, D) >>

\* what clear_evening_data_for_date(D) is to leave alone: the morning
\* fields of D and the weight row of D
MorningHalf(d, D) ==
    << { MorningOf(r) : r \in RowsFor(d.daily_log, D) }, RowsFor(d.weight_log, D) >>

\* C32: clear_morning_data_for_date(D) leaves the review, accomplishment
\* and mood of D and the weight, nutrition and workout rows of D as they
\* were; clear_evening_data_for_date(D) leaves the dreams, the intentions
\* and the weight row of D as they were, so that get_todays_intentions(D)
\* returns after the clear what it returned before; and neither adds a
\* daily_log row
C32_OwnHalfOnly ==
    [][ /\ (hist' # hist /\ last'.op = "clear_morning_data_for_date") =>
              EveningHalf(db', last'.args[1]) = EveningHalf(db, last'.args[1])
        /\ (hist' # hist /\ last'.op = "clear_evening_data_for_date") =>
              /\ MorningHalf(db', last'.args[1]) = MorningHalf(db, last'.args[1])
              /\ get_todays_intentions(db', last'.args[1]) =
                   get_todays_intentions(db, last'.args[1])
        /\ (hist' # hist /\ last'.op \in {"clear_morning_data_for_date",
                                           "clear_evening_data_for_date"}) =>
              { r.log_date : r \in db'.daily_log } =
              { r.log_date : r \in db.daily_log } ]_vars

\* the evening data of a day was cleared after a morning run of that day
\* that logged a weight: the intentions and the weight are still there
C32_Witness ==
    /\ Len(hist) = 2
    /\ prev.op = "main"
    /\ prev.args[1] = "morning"
    /\ last.op = "clear_evening_data_for_date"
    /\ prev.args[2] = last.args[1]
    /\ get_todays_intentions(db, last.args[1]) = Some("t")
    /\ \E r \in db.weight_log : r.log_date = last.args[1] /\ r.weight_lbs = 181

-----------------------------------------------------------------------------
(* C33 *)

\* a run ended in the middle, with an exception raised while input was
\* collected
Aborted == At("ended") /\ conn = "open" /\ pc[2] \in {"morning", "evening"}

\* C33: when a morning or evening run for a date ends with an exception
\* raised while its input is collected, the data of that routine that the
\* database held for the date before the run is still there: dreams and
\* intentions for the morning; review, accomplishment, mood, nutrition rows
\* and workout rows for the evening
C33_AbortKeepsData ==
    Aborted =>
        IF pc[2] = "morning"
        THEN { MorningOf(r) : r \in RowsFor(db.daily_log, pc[3]) } =
             { MorningOf(r) : r \in RowsFor(Started.daily_log, pc[3]) }
        ELSE /\ { EveningOf(r) : r \in RowsFor(db.daily_log, pc[3]) } =
                { EveningOf(r) : r \in RowsFor(Started.daily_log, pc[3]) }
             /\ RowsFor(db.nutrition_log, pc[3]) = RowsFor(Started.nutrition_log, pc[3])
             /\ RowsFor(db.workout_log, pc[3]) = RowsFor(Started.workout_log, pc[3])

-----------------------------------------------------------------------------
(* C34 *)

\* an evening run stopped because there is no weight
StoppedWithoutWeight ==
    /\ At("ended")
    /\ pc[2] = "evening"
    /\ pc[4] # None
    /\ ret.exit_code = 1

EveningWrites == {"save_evening_log", "add_food_item", "log_nutrition_entry",
                  "add_or_get_exercise", "add_or_get_workout", "log_workout"}

\* C34: when an evening run stops because no weight exists, the review,
\* accomplishment and mood of the run, one nutrition row for each item of
\* its payload and, with did_workout, its workout row are in the database
\* file, and get_most_recent_weight was called only after every write of
\* the run
C34_SavedBeforeWeightCheck ==
    StoppedWithoutWeight =>
        /\ \E r \in RowsFor(db.daily_log, pc[3]) :
             EveningOf(r) = <<Some(pc[4].review_of_intentions),
                              Some(pc[4].accomplishment), Some(pc[4].mood)>>
        /\ Cardinality(RowsFor(db.nutrition_log, pc[3])) = Len(pc[4].nutrition)
        /\ Cardinality(RowsFor(db.workout_log, pc[3])) =
             (IF pc[4].did_workout THEN 1 ELSE 0)
        /\ \A i, j \in 1..Len(hist) :
             (hist[i].op \in EveningWrites /\ hist[j].op = "get_most_recent_weight")
                 => i < j
        /\ \E i, j \in 1..Len(hist) :
             hist[i].op = "save_evening_log" /\ hist[j].op = "get_most_recent_weight"

\* an evening run with two foods and the workout on a new file stopped for
\* want of a weight: the two nutrition rows and the workout row are stored
C34_Witness ==
    /\ StoppedWithoutWeight
    /\ db.weight_log = {}
    /\ conn = "closed"
    /\ Len(pc[4].nutrition) = 2
    /\ pc[4].did_workout
    /\ Cardinality(RowsFor(db.nutrition_log, pc[3])) = 2
    /\ Cardinality(RowsFor(db.workout_log, pc[3])) = 1

=============================================================================
